---- MODULE Spec2Model ----
(***************************************************************************)
(* Warlord: resource and progression simulation.                           *)
(*                                                                         *)
(* f32 amounts are modelled as exact fixed-point integers: an amount x is  *)
(* the integer x * Scale, a duration of t seconds the integer              *)
(* t * TimeScale.  Rounding of f32 arithmetic is not modelled.             *)
(***************************************************************************)
EXTENDS Integers, Sequences, FiniteSets, TLC

VARIABLES
    \* ---- population manager (rock.rs)
    rock_limit,     \* RockLimit resource: [current, limit]
    rocks,          \* number of live entities carrying the Rock component
    minerals,       \* live mineral collectibles that were created by cluster spawns
    fragments,      \* live mineral collectibles created by destruction-splitting
    spawn_events,   \* Events<SpawnEvent> not yet read by spawn_rocks (number_of_rocks each)
    spawn_timer,    \* RockSpawner.spawn_timer: elapsed time of the repeating timer
    spawn_log,      \* outcome of every SpawnEvent handled by the latest spawn_rocks run
    cull_field,     \* the MainCamera and the entities with a Cull component that are followed by position
    \* ---- economy (inventory.rs, heat.rs, reaction.rs)
    inventory,      \* the player's Inventory: one InventoryEntry per Reagent
    heat,           \* the player's Heat
    \* ---- the latest call of an operation, as <<record>>, or <<>> before any call
    last_add,       \* InventoryEntry::add: the pool, the amount, the entry before
    last_heat,      \* Heat::add or Heat::tick: the argument, the Heat before
    last_react,     \* Reaction::tick: the rule, dt, the inventory before, the events sent
    reagent_events, \* Events<ReagentEvent>: the events the latest step sent, in order
    \* ---- game state and progression (state.rs, menu.rs, setup_cleanup.rs)
    game_state,     \* State<GameState>
    next_state,     \* NextState<GameState>: <<>> or <<requested state>>
    stage,          \* State<ProgressStages>
    next_stage,     \* NextState<ProgressStages>: <<>> or <<requested stage>>
    fadeout,        \* the FadeOut entity of the End stage: <<>> or <<its timer>>
    ui_cameras,     \* the number of entities with a CustomUICamera component
    hook_log,       \* the OnExit/OnEnter schedules of ProgressStages the latest step ran, in order
    reactions,      \* Reactions resource: the list of rules
    \* ---- the player entity (player.rs, weapon.rs, shield.rs)
    player,         \* TRUE while the player entity exists
    main_gun,       \* MainGun: [enabled, delay_timer]
    shield_emitter, \* ShieldEmitter: [enabled]
    cargo_dumper,   \* CargoDumper: [enabled]
    \* ---- collectibles left in the world by dump_cargo and the shield
    exotic_chunks,  \* live EXOTIC MATTER collectibles
    strange_chunks  \* live STRANGE MATTER collectibles

rockVars == <<rock_limit, rocks, minerals, fragments, spawn_events, spawn_timer, spawn_log,
              cull_field>>
econVars == <<inventory, heat, last_add, last_heat, last_react, reagent_events>>

progVars == <<game_state, next_state, stage, next_stage, fadeout, ui_cameras, hook_log,
              reactions,
              player, main_gun, shield_emitter, cargo_dumper,
              exotic_chunks, strange_chunks>>

vars == <<rock_limit, rocks, minerals, fragments, spawn_events, spawn_timer, spawn_log,
          cull_field,
          inventory, heat, last_add, last_heat, last_react, reagent_events,
          game_state, next_state, stage, next_stage, fadeout, ui_cameras, hook_log,
          reactions,
          player, main_gun, shield_emitter, cargo_dumper,
          exotic_chunks, strange_chunks>>

\* ------------------------------------------------------------------------
\* Units
\* ------------------------------------------------------------------------
Scale     == 4      \* model units per 1.0 of an f32 amount (quarter units)
TimeScale == 2      \* model units per second (half seconds)

Secs(n)  == n * TimeScale
Amt(n)   == n * Scale

Min(a, b) == IF a < b THEN a ELSE b
Max(a, b) == IF a > b THEN a ELSE b

\* ------------------------------------------------------------------------
\* Population manager: program constants
\* ------------------------------------------------------------------------
CULL_MAX_DISTANCE == 75   \* Cull::default(): max_distance
ROCK_LIMIT         == 150   \* RockLimit::default().limit
MIN_CLUSTER_SIZE   == 15    \* RockSpawner::default().min_cluster_size
MAX_CLUSTER_SIZE   == 25    \* RockSpawner::default().max_cluster_size
FIRST_CLUSTER_SIZE == 50    \* spawn_first_cluster
SPAWN_TIMER_SECS   == 5     \* RockSpawner::default().spawn_timer
FRAGMENTS_PER_ROCK == 3     \* handle_destruction_event: for _ in 0..3

\* ------------------------------------------------------------------------
\* Population manager: bounds of the model
\* ------------------------------------------------------------------------
MaxMineralsPerCluster == 1  \* rolls <= chance_of_mineral explored per cluster
MaxPendingSpawns      == 2  \* SpawnEvents that may be waiting for spawn_rocks
MaxFragments          == 6  \* destruction is explored while fragments stay within this
CullBatch             == 5  \* rocks leaving the cull radius together in one tick
MaxUncounted          == 3  \* removals without a decrement explored per run
MaxMinerals           == 2  \* live cluster minerals explored

\* The cluster sizes random_range(min, max) is explored with: both ends of the range.
ClusterSizes == {MIN_CLUSTER_SIZE, MAX_CLUSTER_SIZE}

\* Frame times the spawner is ticked with (in model time units).
RockDts == {Secs(SPAWN_TIMER_SECS), Secs(2 * SPAWN_TIMER_SECS)}

RockLimitDefault == [current |-> 0, limit |-> ROCK_LIMIT]

\* ------------------------------------------------------------------------
\* spawn_rocks
\* ------------------------------------------------------------------------
\* `if number_of_rocks + rock_limit.current > rock_limit.limit { return; }`
SpawnAcceptsUnchecked(number_of_rocks, limit) == TRUE
SpawnAcceptsInclusive(number_of_rocks, limit) ==
    ~(number_of_rocks + limit.current >= limit.limit)
SpawnAccepts(number_of_rocks, limit) ==
    ~(number_of_rocks + limit.current > limit.limit)

\* `rock_limit.current += number_of_rocks`
ReserveRocksOnly(number_of_rocks, made_minerals) == number_of_rocks - made_minerals
Reserve(number_of_rocks, made_minerals) == number_of_rocks

\* One SpawnEvent handled by the loop body of spawn_rocks.  `rolls` is the number
\* of objects of the cluster whose roll is <= chance_of_mineral.
SpawnOne(number_of_rocks, rolls, limit) ==
    IF ~SpawnAccepts(number_of_rocks, limit)
    THEN [number   |-> number_of_rocks,
          before   |-> limit.current,
          accepted |-> FALSE,
          after    |-> limit.current,
          rocks    |-> 0,
          minerals |-> 0]
    ELSE LET m == Min(rolls, number_of_rocks) IN
         [number   |-> number_of_rocks,
          before   |-> limit.current,
          accepted |-> TRUE,
          after    |-> limit.current + Reserve(number_of_rocks, m),
          rocks    |-> number_of_rocks - m,
          minerals |-> m]

\* The whole reader loop: events are handled in order; the first rejected event
\* ends the system (`return`).  The reader has advanced past the events it
\* yielded, the rejected one included; the events after it stay unread.
RECURSIVE SpawnRocksFrom(_, _, _, _, _)
SpawnRocksFrom(evs, rolls, i, limit, log) ==
    IF i > Len(evs) THEN log
    ELSE LET r == SpawnOne(evs[i], rolls[i], limit) IN
         IF ~r.accepted THEN Append(log, r)
         ELSE SpawnRocksFrom(evs, rolls, i + 1,
                             [limit EXCEPT !.current = r.after], Append(log, r))

\* Objects created by one run: the sum of a field over the handled events.
RECURSIVE SumField(_, _)
SumField(log, f) ==
    IF log = <<>> THEN 0
    ELSE (IF f = "rocks" THEN log[1].rocks ELSE log[1].minerals) + SumField(Tail(log), f)

spawn_rocks ==
    /\ spawn_events # <<>>
    /\ \E rolls \in [1..Len(spawn_events) -> 0..MaxMineralsPerCluster] :
         LET log == SpawnRocksFrom(spawn_events, rolls, 1, rock_limit, <<>>) IN
         /\ spawn_log'  = log
         /\ rock_limit' = [rock_limit EXCEPT !.current = log[Len(log)].after]
         /\ rocks'      = rocks + SumField(log, "rocks")
         /\ minerals'   = minerals + SumField(log, "minerals")
         /\ minerals'  <= MaxMinerals
         /\ spawn_events' = SubSeq(spawn_events, Len(log) + 1, Len(spawn_events))
    /\ UNCHANGED <<fragments, spawn_timer>>

\* spawn_first_cluster is a startup system: its event is pending when the app starts.
\* spawn_rocks_tick: the repeating timer is ticked by dt and one SpawnEvent is sent
\* per completion of the timer within this tick.
spawn_rocks_tick(dt) ==
    LET total == spawn_timer + dt
        times == total \div Secs(SPAWN_TIMER_SECS)    \* times_finished_this_tick
    IN  /\ Len(spawn_events) + times <= MaxPendingSpawns
        /\ spawn_timer' = total % Secs(SPAWN_TIMER_SECS)
        /\ \E nums \in [1..times -> ClusterSizes] :
              spawn_events' = spawn_events \o nums
        /\ spawn_log' = <<>>
        /\ UNCHANGED <<rock_limit, rocks, minerals, fragments>>

\* Events<SpawnEvent>::update: events nobody read for two frames are dropped
\* (spawn_rocks only runs in GameState::InGame).
expire_spawn_events ==
    /\ spawn_events # <<>>
    /\ spawn_events' = <<>>
    /\ spawn_log' = <<>>
    /\ UNCHANGED <<rock_limit, rocks, minerals, fragments, spawn_timer>>

\* `rock_limit.current -= 1` on a u32: at 0 a release build wraps to u32::MAX
\* (a debug build panics).  U32_WRAPPED stands for the wrapped value; it is the
\* largest integer the model checker represents.
U32_WRAPPED == 2147483647
RockLimitDecrement(current) == IF current = 0 THEN U32_WRAPPED ELSE current - 1

\* n decrements in a row.
DecrementTimes(current, n) ==
    IF n = 0 THEN current
    ELSE IF n <= current THEN RockLimitDecrement(current - (n - 1))
    ELSE RockLimitDecrement(0) - (n - current - 1)

\* Vec2::distance_squared
DistanceSquared(a, b) ==
    (a[1] - b[1]) * (a[1] - b[1]) + (a[2] - b[2]) * (a[2] - b[2])

\* A comparison that culls at the radius itself.
IsFarInclusive(object, camera) ==
    DistanceSquared(object.pos, camera) >= object.max_distance * object.max_distance

\* dist2 > cull.max_distance * cull.max_distance
IsFar(object, camera) ==
    DistanceSquared(object.pos, camera) > object.max_distance * object.max_distance

\* No entity is followed by position.
CullIdle == [camera |-> <<0, 0>>, objects |-> <<>>]

\* Counted objects that were removed without a decrement of the counter.
Uncounted == rock_limit.current - rocks - minerals

\* cull_far_away_entities: far_rocks, far_minerals and far_fragments are the
\* entities whose squared distance to the camera exceeds max_distance^2.
\* Every one of them is despawned; only those with the Rock component
\* decrement the counter.
CullCountedNothing(far_rocks, far_minerals) == 0
CullCountedAll(far_rocks, far_minerals) == far_rocks + far_minerals
CullCounted(far_rocks, far_minerals) == far_rocks

cull_far_away_entities(far_rocks, far_minerals, far_fragments) ==
    /\ far_rocks + far_minerals + far_fragments > 0
    /\ far_rocks <= rocks /\ far_minerals <= minerals /\ far_fragments <= fragments
    /\ Uncounted + (far_rocks + far_minerals - CullCounted(far_rocks, far_minerals))
         <= MaxUncounted
    /\ rocks'     = rocks - far_rocks
    /\ minerals'  = minerals - far_minerals
    /\ fragments' = fragments - far_fragments
    /\ rock_limit' = [rock_limit EXCEPT
                        !.current = DecrementTimes(@, CullCounted(far_rocks, far_minerals))]
    /\ spawn_log' = <<>>
    /\ UNCHANGED <<spawn_events, spawn_timer>>

\* cull_far_away_entities on the entities followed by position: rocks and
\* cluster minerals, each [pos, max_distance, rock, live].
cull_far_away_entities_tick ==
    LET objects == cull_field.objects
        far == {i \in DOMAIN objects :
                    objects[i].live /\ IsFar(objects[i], cull_field.camera)}
    IN  /\ cull_far_away_entities(Cardinality({i \in far : objects[i].rock}),
                                  Cardinality({i \in far : ~objects[i].rock}), 0)
        /\ cull_field' = [cull_field EXCEPT !.objects =
                            [i \in DOMAIN objects |->
                                IF i \in far THEN [objects[i] EXCEPT !.live = FALSE]
                                ELSE objects[i]]]

\* collectible.rs handle_collision: every collectible reported touching the player
\* this tick is despawned (the CollectionEvents it sends belong to the inventory
\* part of the model).
collect_minerals(from_clusters, from_fragments) ==
    /\ from_clusters + from_fragments > 0
    /\ from_clusters <= minerals /\ from_fragments <= fragments
    /\ Uncounted + from_clusters <= MaxUncounted
    /\ minerals'  = minerals - from_clusters
    /\ fragments' = fragments - from_fragments
    /\ spawn_log' = <<>>
    /\ UNCHANGED <<rock_limit, rocks, spawn_events, spawn_timer>>

\* handle_destruction_event: `hits` are the RockDestroyed events read this tick,
\* each naming a live rock (an index among the live rocks).  The despawn is a
\* deferred command, so every event finds its rock in rock_query.
Range(f) == {f[i] : i \in DOMAIN f}

\* A handler that counts the fragments against the cap and rejects the split
\* when they do not fit.
handle_destruction_event_capped(hits) ==
    /\ hits # <<>>
    /\ rock_limit.current + FRAGMENTS_PER_ROCK * Len(hits) <= rock_limit.limit
    /\ fragments + FRAGMENTS_PER_ROCK * Len(hits) <= MaxFragments
    /\ Uncounted + Cardinality(Range(hits)) <= MaxUncounted
    /\ rocks'      = rocks - Cardinality(Range(hits))
    /\ fragments'  = fragments + FRAGMENTS_PER_ROCK * Len(hits)
    /\ rock_limit' = [rock_limit EXCEPT !.current = @ + FRAGMENTS_PER_ROCK * Len(hits)]
    /\ spawn_log'  = <<>>
    /\ UNCHANGED <<minerals, spawn_events, spawn_timer>>

handle_destruction_event(hits) ==
    /\ hits # <<>>
    /\ fragments + FRAGMENTS_PER_ROCK * Len(hits) <= MaxFragments
    /\ Uncounted + Cardinality(Range(hits)) <= MaxUncounted
    /\ rocks'     = rocks - Cardinality(Range(hits))
    /\ fragments' = fragments + FRAGMENTS_PER_ROCK * Len(hits)
    /\ spawn_log' = <<>>
    /\ UNCHANGED <<rock_limit, minerals, spawn_events, spawn_timer>>

\* ------------------------------------------------------------------------
\* Inventory (inventory.rs)
\* ------------------------------------------------------------------------
Reagents == {"Minerals", "Exotic", "Strange", "Continuum"}
None == "None"

MINERALS_LIMIT  == 10    \* Inventory::default(): limit of MINERALS
EXOTIC_LIMIT    == 25    \* limit of EXOTIC MATTER
STRANGE_LIMIT   == 50    \* limit of STRANGE MATTER
CONTINUUM_LIMIT == 100   \* limit of CONTINUUM

\* An InventoryEntry (color and name left out).  threshold is an Option: <<>>
\* or <<fraction in percent>>.
Entry(limit, visible) ==
    [current |-> 0, limit |-> Amt(limit), threshold |-> <<>>, visible |-> visible]

InventoryDefault ==
    [r \in Reagents |->
        CASE r = "Minerals"  -> Entry(MINERALS_LIMIT, TRUE)
          [] r = "Exotic"    -> Entry(EXOTIC_LIMIT, FALSE)
          [] r = "Strange"   -> Entry(STRANGE_LIMIT, FALSE)
          [] r = "Continuum" -> Entry(CONTINUUM_LIMIT, FALSE)]

\* f32::clamp(self, min, max)
Clamp(x, lo, hi) == IF x < lo THEN lo ELSE IF x > hi THEN hi ELSE x

\* InventoryEntry::add
EntryAddUnclamped(entry, amount) ==
    [entry EXCEPT !.current = entry.current + amount]
EntryAddNoFloor(entry, amount) ==
    [entry EXCEPT !.current = IF entry.current + amount > entry.limit
                              THEN entry.limit ELSE entry.current + amount]
EntryAdd(entry, amount) ==
    [entry EXCEPT !.current = Clamp(entry.current + amount, 0, entry.limit)]

\* A comparison that leaves the threshold itself out.
FractionAbove(entry, t) == entry.current * 100 > t * entry.limit

\* InventoryEntry::fraction() >= t, for t in percent (current / limit >= t / 100)
FractionAtLeast(entry, t) == entry.current * 100 >= t * entry.limit

\* ------------------------------------------------------------------------
\* Heat (heat.rs)
\* ------------------------------------------------------------------------
HEAT_LIMIT              == 100   \* Heat::default().limit
HEAT_REACTION_THRESHOLD == 75    \* Heat::default().reaction_threshold, in percent
HEAT_DECAY_RATE         == 25    \* Heat::default().decay_rate, per second
HEAT_DECAY_HALF_SECS    == 3     \* Heat::default().decay_timer: 1.5 s

\* A bevy Timer in TimerMode::Once.
Timer(duration) == [elapsed |-> 0, duration |-> duration, finished |-> FALSE]

TimerRemaining(t) == t.duration - t.elapsed

TimerReset(t) == [t EXCEPT !.elapsed = 0, !.finished = FALSE]

TimerTick(t, dt) ==
    IF t.finished THEN t
    ELSE IF t.elapsed + dt >= t.duration
         THEN [t EXCEPT !.elapsed = t.duration, !.finished = TRUE]
         ELSE [t EXCEPT !.elapsed = t.elapsed + dt]

HeatDefault ==
    [enabled            |-> FALSE,
     current            |-> 0,
     limit              |-> Amt(HEAT_LIMIT),
     reaction_threshold |-> HEAT_REACTION_THRESHOLD,
     threshold_visible  |-> TRUE,
     decay_rate         |-> Amt(HEAT_DECAY_RATE) \div TimeScale,
     decay_timer        |-> Timer((HEAT_DECAY_HALF_SECS * TimeScale) \div 2)]

\* Heat::can_react: fraction() > reaction_threshold
CanReactInclusive(h) == h.current * 100 >= h.reaction_threshold * h.limit
CanReact(h) == h.current * 100 > h.reaction_threshold * h.limit

\* An add that leaves the decay timer running.
HeatAddNoReset(h, delta) ==
    [h EXCEPT !.current = Clamp(h.current + delta, 0, h.limit)]

\* Heat::add
HeatAddUnclamped(h, delta) ==
    [h EXCEPT !.current = h.current + delta, !.decay_timer = TimerReset(@)]
HeatAdd(h, delta) ==
    [h EXCEPT !.current = Clamp(h.current + delta, 0, h.limit),
              !.decay_timer = TimerReset(@)]

\* A tick that decays for its whole step once the timer has finished.
HeatTickWholeStep(h, dt) ==
    LET timer == TimerTick(h.decay_timer, dt)
    IN  IF dt > TimerRemaining(h.decay_timer) /\ timer.finished
        THEN [h EXCEPT !.decay_timer = timer,
                       !.current = Clamp(h.current - h.decay_rate * dt, 0, h.limit)]
        ELSE [h EXCEPT !.decay_timer = timer]

\* Heat::tick
HeatTickUnclamped(h, dt) ==
    LET leftover == dt - TimerRemaining(h.decay_timer)
        timer    == TimerTick(h.decay_timer, dt)
    IN  IF leftover > 0 /\ timer.finished
        THEN [h EXCEPT !.decay_timer = timer,
                       !.current = h.current - h.decay_rate * leftover]
        ELSE [h EXCEPT !.decay_timer = timer]
HeatTick(h, dt) ==
    LET leftover == dt - TimerRemaining(h.decay_timer)
        timer    == TimerTick(h.decay_timer, dt)
    IN  IF leftover > 0 /\ timer.finished
        THEN [h EXCEPT !.decay_timer = timer,
                       !.current = Clamp(h.current - h.decay_rate * leftover, 0, h.limit)]
        ELSE [h EXCEPT !.decay_timer = timer]

\* ------------------------------------------------------------------------
\* Reactions (reaction.rs)
\* ------------------------------------------------------------------------
\* A Reaction; rate is in amount units per time unit.
Reaction(reagent1, reagent2, needs_heat, rate, result) ==
    [reagent1 |-> reagent1, reagent2 |-> reagent2, needs_heat |-> needs_heat,
     rate |-> rate, result |-> result]

\* The first rule without its heat gate.
MineralsToExoticAnyHeat ==
    Reaction("Minerals", None, FALSE, (5 * Scale) \div (10 * TimeScale), "Exotic")

\* setup_reactions: Minerals -> Exotic, rate 0.5, needs heat
MineralsToExotic == Reaction("Minerals", None, TRUE, (5 * Scale) \div (10 * TimeScale), "Exotic")

ReagentEvent(reagent, delta) == [reagent |-> reagent, delta |-> delta]

\* `amount_reacted.min(result_entry.limit() - result_entry.current())`
HeadroomIgnored(amount, result_entry) == amount
Headroom(amount, result_entry) == Min(amount, result_entry.limit - result_entry.current)

\* A tick that reports the inputs before the result.
ReactionTickInputsFirst(self, inv, h, dt) ==
    IF self.needs_heat /\ ~CanReact(h)
    THEN [inventory |-> inv, events |-> <<>>]
    ELSE
      LET base == IF self.reagent2 # None
                  THEN Min(Min(inv[self.reagent1].current, inv[self.reagent2].current),
                           dt * self.rate)
                  ELSE Min(inv[self.reagent1].current, dt * self.rate)
          amount_reacted == IF self.result # None
                            THEN Headroom(base, inv[self.result])
                            ELSE base
          inv1 == IF self.result # None
                  THEN [inv EXCEPT ![self.result] = EntryAdd(@, amount_reacted)]
                  ELSE inv
          inv2 == [inv1 EXCEPT ![self.reagent1] = EntryAdd(@, -amount_reacted)]
          inv3 == IF self.reagent2 # None
                  THEN [inv2 EXCEPT ![self.reagent2] = EntryAdd(@, -amount_reacted)]
                  ELSE inv2
          ev1  == <<ReagentEvent(self.reagent1, -amount_reacted)>>
          ev2  == IF self.reagent2 # None
                  THEN Append(ev1, ReagentEvent(self.reagent2, -amount_reacted))
                  ELSE ev1
          ev3  == IF self.result # None
                  THEN Append(ev2, ReagentEvent(self.result, amount_reacted))
                  ELSE ev2
      IN [inventory |-> inv3, events |-> ev3]

\* Reaction::tick: the inventory it leaves and the ReagentEvents it sends, in order.
ReactionTick(self, inv, h, dt) ==
    IF self.needs_heat /\ ~CanReact(h)
    THEN [inventory |-> inv, events |-> <<>>]
    ELSE
      LET base == IF self.reagent2 # None
                  THEN Min(Min(inv[self.reagent1].current, inv[self.reagent2].current),
                           dt * self.rate)
                  ELSE Min(inv[self.reagent1].current, dt * self.rate)
          amount_reacted == IF self.result # None
                            THEN Headroom(base, inv[self.result])
                            ELSE base
          inv1 == IF self.result # None
                  THEN [inv EXCEPT ![self.result] = EntryAdd(@, amount_reacted)]
                  ELSE inv
          ev1  == IF self.result # None
                  THEN <<ReagentEvent(self.result, amount_reacted)>>
                  ELSE <<>>
          inv2 == [inv1 EXCEPT ![self.reagent1] = EntryAdd(@, -amount_reacted)]
          ev2  == Append(ev1, ReagentEvent(self.reagent1, -amount_reacted))
          inv3 == IF self.reagent2 # None
                  THEN [inv2 EXCEPT ![self.reagent2] = EntryAdd(@, -amount_reacted)]
                  ELSE inv2
          ev3  == IF self.reagent2 # None
                  THEN Append(ev2, ReagentEvent(self.reagent2, -amount_reacted))
                  ELSE ev2
      IN [inventory |-> inv3, events |-> ev3]

\* ------------------------------------------------------------------------
\* Player components (weapon.rs, shield.rs) and the rule list at start-up
\* ------------------------------------------------------------------------
MAIN_GUN_HEAT == 8      \* MainGun::default().heat_generated

\* MainGun::default(): disabled, delay_timer of 0 s.  fire_delay (0.33 s) is
\* one model time unit.
MainGunDefault == [enabled |-> FALSE, fire_delay |-> 1, heat_generated |-> Amt(MAIN_GUN_HEAT),
                   delay_timer |-> Timer(0)]

ShieldEmitterDefault == [enabled |-> FALSE]

CargoDumperDefault == [enabled |-> FALSE]

\* The rule list a run starts with: the list of setup_reactions.
ReactionsDefault == <<MineralsToExotic>>

\* The game before a run: main menu, no player, nothing in the world.
ProgIdle ==
    /\ game_state     = "MainMenu"
    /\ next_state     = <<>>
    /\ stage          = "None"
    /\ next_stage     = <<>>
    /\ fadeout        = <<>>
    /\ ui_cameras     = 0
    /\ hook_log       = <<>>
    /\ reactions      = ReactionsDefault
    /\ player         = FALSE
    /\ main_gun       = MainGunDefault
    /\ shield_emitter = ShieldEmitterDefault
    /\ cargo_dumper   = CargoDumperDefault
    /\ exotic_chunks  = 0
    /\ strange_chunks = 0

\* ------------------------------------------------------------------------
\* Specification of the population manager
\* ------------------------------------------------------------------------
EconIdle ==
    /\ inventory  = InventoryDefault
    /\ heat       = HeatDefault
    /\ last_add   = <<>>
    /\ last_heat  = <<>>
    /\ last_react = <<>>
    /\ reagent_events = <<>>

RocksIdle ==
    /\ rock_limit   = RockLimitDefault
    /\ rocks        = 0
    /\ minerals     = 0
    /\ fragments    = 0
    /\ spawn_events = <<>>
    /\ spawn_timer  = 0
    /\ spawn_log    = <<>>
    /\ cull_field   = CullIdle

InitRocks ==
    /\ rock_limit   = RockLimitDefault
    /\ rocks        = 0
    /\ minerals     = 0
    /\ fragments    = 0
    /\ spawn_events = <<FIRST_CLUSTER_SIZE>>
    /\ spawn_timer  = 0
    /\ spawn_log    = <<>>
    /\ cull_field   = CullIdle
    /\ EconIdle
    /\ ProgIdle

CullCounts(n) == {k \in {0, CullBatch} : k <= n}

NextRocks ==
    \/ spawn_rocks /\ UNCHANGED <<econVars, progVars, cull_field>>
    \/ \E dt \in RockDts : spawn_rocks_tick(dt) /\ UNCHANGED <<econVars, progVars, cull_field>>
    \/ expire_spawn_events /\ UNCHANGED <<econVars, progVars, cull_field>>
    \/ \E kr \in CullCounts(rocks), km \in {0, minerals}, kf \in {0, fragments} :
          cull_far_away_entities(kr, km, kf) /\ UNCHANGED <<econVars, progVars, cull_field>>
    \/ \E km \in {0, minerals}, kf \in {0, fragments} :
          collect_minerals(km, kf) /\ UNCHANGED <<econVars, progVars, cull_field>>
    \/ \E hits \in UNION {[1..n -> 1..Min(rocks, 2)] : n \in 1..2} :
          handle_destruction_event(hits) /\ UNCHANGED <<econVars, progVars, cull_field>>

SpecRocks == InitRocks /\ [][NextRocks]_vars

\* ------------------------------------------------------------------------
\* Specification of InventoryEntry::add on its own: every pool starts at a
\* sampled amount within its limit and add is called with sampled amounts.
\* ------------------------------------------------------------------------
MaxAdd == 3     \* add is called with amounts up to MaxAdd times a pool's limit

\* Amounts a pool is sampled at: empty, one unit (1.0), one model unit short of
\* full, full.
PoolSamples(limit) == {0, Amt(1), limit - 1, limit}

\* The default inventory with the given amounts in its pools.
InventoryWith(m, e, s, c) ==
    [r \in Reagents |->
        [InventoryDefault[r] EXCEPT !.current =
            CASE r = "Minerals" -> m [] r = "Exotic" -> e
              [] r = "Strange" -> s [] r = "Continuum" -> c]]

SampledInventories ==
    {InventoryWith(m, e, s, c) :
        m \in PoolSamples(Amt(MINERALS_LIMIT)), e \in PoolSamples(Amt(EXOTIC_LIMIT)),
        s \in PoolSamples(Amt(STRANGE_LIMIT)),  c \in PoolSamples(Amt(CONTINUUM_LIMIT))}

\* Amounts add is called with: small and large, positive, zero and negative.
AddAmounts(limit) ==
    {0, 1, -1, Amt(2), -Amt(2)} \cup {k * limit : k \in 1..MaxAdd}
                                \cup {-(k * limit) : k \in 1..MaxAdd}

InitAdd ==
    /\ inventory \in SampledInventories
    /\ heat = HeatDefault
    /\ last_add = <<>> /\ reagent_events = <<>>
    /\ last_heat = <<>>
    /\ last_react = <<>>
    /\ RocksIdle
    /\ ProgIdle

\* inventory.reagent_mut(reagent).add(amount)
add(reagent, amount) ==
    /\ last_add = <<>>
    /\ inventory' = [inventory EXCEPT ![reagent] = EntryAdd(@, amount)]
    /\ last_add'  = <<[reagent |-> reagent, amount |-> amount,
                       before |-> inventory[reagent]]>>
    /\ UNCHANGED <<heat, last_heat, last_react, reagent_events>>

NextAdd ==
    \E reagent \in Reagents :
        \E amount \in AddAmounts(inventory[reagent].limit) :
            add(reagent, amount) /\ UNCHANGED <<rockVars, progVars>>

SpecAdd == InitAdd /\ [][NextAdd]_vars

\* ------------------------------------------------------------------------
\* Specification of Heat on its own: any interleaving of add and tick.
\* ------------------------------------------------------------------------
MaxHeatDt == 4          \* tick is called with 0..MaxHeatDt time units

HeatDeltas == {Amt(MAIN_GUN_HEAT), -Amt(MAIN_GUN_HEAT), 0, Amt(HEAT_LIMIT) \div 2}

InitHeat ==
    /\ inventory = InventoryDefault
    /\ heat = HeatDefault
    /\ last_add = <<>> /\ reagent_events = <<>>
    /\ last_heat = <<>>
    /\ last_react = <<>>
    /\ RocksIdle
    /\ ProgIdle

\* What the record of the latest call keeps besides the call itself:
\*   quiet  the time ticked since the latest add of a positive amount (or since
\*          the Heat was made), counted up to one unit past the decay delay;
\*   start  the Heat as the latest add left it (or as it was made);
\*   total  the time ticked since then, counted up to MaxHeatTotal.
MaxHeatTotal == 12

HeatQuiet == IF last_heat = <<>> THEN 0 ELSE last_heat[1].quiet
HeatStart == IF last_heat = <<>> THEN heat ELSE last_heat[1].start
HeatTotal == IF last_heat = <<>> THEN 0 ELSE last_heat[1].total

\* heat.add(delta)
heat_add(delta) ==
    /\ heat' = HeatAdd(heat, delta)
    /\ last_heat' = <<[op |-> "add", arg |-> delta, before |-> heat,
                        quiet |-> IF delta > 0 THEN 0 ELSE HeatQuiet,
                        start |-> HeatAdd(heat, delta), total |-> 0]>>
    /\ UNCHANGED <<inventory, last_add, last_react, reagent_events>>

\* heat.tick(dt)
heat_tick(dt) ==
    /\ heat' = HeatTick(heat, dt)
    /\ last_heat' = <<[op |-> "tick", arg |-> dt, before |-> heat,
                        quiet |-> Min(HeatQuiet + dt, heat.decay_timer.duration + 1),
                        start |-> HeatStart,
                        total |-> Min(HeatTotal + dt, MaxHeatTotal)]>>
    /\ UNCHANGED <<inventory, last_add, last_react, reagent_events>>

NextHeat ==
    \/ \E delta \in HeatDeltas : heat_add(delta) /\ UNCHANGED <<rockVars, progVars>>
    \/ \E dt \in 0..MaxHeatDt : heat_tick(dt) /\ UNCHANGED <<rockVars, progVars>>

SpecHeat == InitHeat /\ [][NextHeat]_vars

\* ------------------------------------------------------------------------
\* Specification of Reaction::tick on its own: one rule applied once to a
\* sampled inventory and heat.
\* ------------------------------------------------------------------------
\* enter_continuum_stage: Exotic + Strange -> Continuum, rate 1.0, needs heat
ExoticStrangeToContinuum ==
    Reaction("Exotic", "Strange", TRUE, (1 * Scale) \div TimeScale, "Continuum")

\* The two rules of the program, and the two shapes of rule Reaction::tick
\* also handles: no result, no heat.
RuleShapes ==
    {MineralsToExotic, ExoticStrangeToContinuum,
     Reaction("Minerals", None, FALSE, (5 * Scale) \div (10 * TimeScale), None),
     Reaction("Exotic", "Strange", FALSE, (1 * Scale) \div TimeScale, None)}

MaxReactDt == 4         \* Reaction::tick is called with 0..MaxReactDt time units

\* Heat amounts sampled: cold, exactly at the reaction threshold, one model unit
\* above it, full.
HeatSamples ==
    {0, (HEAT_REACTION_THRESHOLD * Amt(HEAT_LIMIT)) \div 100,
     (HEAT_REACTION_THRESHOLD * Amt(HEAT_LIMIT)) \div 100 + 1, Amt(HEAT_LIMIT)}

InitReaction ==
    /\ inventory \in SampledInventories
    /\ heat \in {[HeatDefault EXCEPT !.current = h] : h \in HeatSamples}
    /\ last_add = <<>> /\ reagent_events = <<>>
    /\ last_heat = <<>>
    /\ last_react = <<>>
    /\ RocksIdle
    /\ ProgIdle

\* reaction.tick(&mut inventory, &heat, dt, send)
reaction_tick(rule, dt) ==
    /\ last_react = <<>>
    /\ LET out == ReactionTick(rule, inventory, heat, dt) IN
         /\ inventory'  = out.inventory
         /\ last_react' = <<[rule |-> rule, dt |-> dt, before |-> inventory,
                             heat |-> heat, events |-> out.events]>>
         /\ reagent_events' = out.events
    /\ UNCHANGED <<heat, last_add, last_heat>>

NextReaction ==
    \E rule \in RuleShapes, dt \in 0..MaxReactDt :
        reaction_tick(rule, dt) /\ UNCHANGED <<rockVars, progVars>>

SpecReaction == InitReaction /\ [][NextReaction]_vars

\* ------------------------------------------------------------------------
\* Game state and progression stages (state.rs, setup_cleanup.rs)
\* ------------------------------------------------------------------------
GameStates == {"MainMenu", "Intro", "InGame", "Outro", "EndScreen", "Paused"}

\* enum ProgressStages, in declaration order
StageOrder ==
    <<"None", "Exploration", "GunAndHeat", "CollectExotic", "ShieldAndStrange",
      "Continuum", "End">>

StageIndex(s) == CHOOSE i \in DOMAIN StageOrder : StageOrder[i] = s

FADE_OUT_SECS == 5      \* enter_end_stage: Timer::from_seconds(5.0, TimerMode::Once)

\* Everything the schedules run by a state transition can read or write.
World ==
    [game_state |-> game_state, next_state |-> next_state,
     stage |-> stage, next_stage |-> next_stage,
     fadeout |-> fadeout, ui_cameras |-> ui_cameras,
     hook_log |-> <<>>, reactions |-> reactions,
     player |-> player, inventory |-> inventory, heat |-> heat,
     main_gun |-> main_gun, shield_emitter |-> shield_emitter,
     cargo_dumper |-> cargo_dumper,
     exotic_chunks |-> exotic_chunks, strange_chunks |-> strange_chunks,
     rock_limit |-> rock_limit, rocks |-> rocks, minerals |-> minerals,
     fragments |-> fragments]

\* InventoryEntry::set_threshold on one pool; t is <<>> or <<percentage>>
SetThreshold(inv, reagent, t) == [inv EXCEPT ![reagent].threshold = t]

\* An exit hook that clears the threshold and leaves the minerals in the pool.
exit_exploration_stage_undebited(w) ==
    IF w.player THEN [w EXCEPT !.inventory = SetThreshold(w.inventory, "Minerals", <<>>)]
    ELSE w

\* An enter hook that sets no threshold.
enter_exploration_stage_unset(w) == w

\* Every stage hook loops over the entities of its query: it does nothing while
\* there is no player.
enter_exploration_stage(w) ==
    IF w.player THEN [w EXCEPT !.inventory = SetThreshold(w.inventory, "Minerals", <<90>>)]
    ELSE w

exit_exploration_stage(w) ==
    IF w.player
    THEN LET entry == [w.inventory["Minerals"] EXCEPT !.threshold = <<>>]
         IN  [w EXCEPT !.inventory["Minerals"] = EntryAdd(entry, -entry.current)]
    ELSE w

enter_gun_and_heat_stage(w) ==
    IF w.player
    THEN [w EXCEPT !.heat.enabled = TRUE, !.main_gun.enabled = TRUE]
    ELSE w

exit_gun_and_heat_stage(w) ==
    IF w.player THEN [w EXCEPT !.heat.threshold_visible = TRUE] ELSE w

\* An exit hook that leaves the threshold in place.
exit_collect_exotic_stage_keeping(w) == w

enter_collect_exotic_stage(w) ==
    IF w.player THEN [w EXCEPT !.inventory = SetThreshold(w.inventory, "Exotic", <<90>>)]
    ELSE w

exit_collect_exotic_stage(w) ==
    IF w.player THEN [w EXCEPT !.inventory = SetThreshold(w.inventory, "Exotic", <<>>)]
    ELSE w

\* An entry hook that enables the shield emitter but not the cargo dumper.
enter_shield_and_strange_stage_shield_only(w) ==
    IF w.player
    THEN [w EXCEPT !.inventory = SetThreshold(w.inventory, "Strange", <<90>>),
                   !.shield_emitter.enabled = TRUE]
    ELSE w

enter_shield_and_strange_stage(w) ==
    IF w.player
    THEN [w EXCEPT !.inventory = SetThreshold(w.inventory, "Strange", <<90>>),
                   !.shield_emitter.enabled = TRUE,
                   !.cargo_dumper.enabled = TRUE]
    ELSE w

exit_shield_and_strange_stage(w) ==
    IF w.player THEN [w EXCEPT !.inventory = SetThreshold(w.inventory, "Strange", <<>>)]
    ELSE w

\* An entry hook that puts the new rule in front of the existing ones.
enter_continuum_stage_prepending(w) ==
    LET w1 == IF w.player
              THEN [w EXCEPT !.inventory = SetThreshold(w.inventory, "Continuum", <<99>>)]
              ELSE w
    IN  [w1 EXCEPT !.reactions = <<ExoticStrangeToContinuum>> \o @]

enter_continuum_stage(w) ==
    LET w1 == IF w.player
              THEN [w EXCEPT !.inventory = SetThreshold(w.inventory, "Continuum", <<99>>)]
              ELSE w
    IN  [w1 EXCEPT !.reactions = Append(@, ExoticStrangeToContinuum)]

exit_continuum_stage(w) ==
    IF w.player THEN [w EXCEPT !.inventory = SetThreshold(w.inventory, "Continuum", <<>>)]
    ELSE w

enter_end_stage(w) == [w EXCEPT !.fadeout = Append(@, Timer(Secs(FADE_OUT_SECS)))]

exit_end_stage(w) == [w EXCEPT !.fadeout = <<>>]

\* The OnExit and OnEnter schedules of ProgressStages (StatePlugin::build)
OnExitStage(s, w) ==
    LET ran == CASE s = "Exploration"      -> exit_exploration_stage(w)
                 [] s = "GunAndHeat"       -> exit_gun_and_heat_stage(w)
                 [] s = "CollectExotic"    -> exit_collect_exotic_stage(w)
                 [] s = "ShieldAndStrange" -> exit_shield_and_strange_stage(w)
                 [] s = "Continuum"        -> exit_continuum_stage(w)
                 [] s = "End"              -> exit_end_stage(w)
                 [] OTHER                  -> w
    IN  [ran EXCEPT !.hook_log = Append(@, <<"OnExit", s>>)]

OnEnterStage(s, w) ==
    LET ran == CASE s = "Exploration"      -> enter_exploration_stage(w)
                 [] s = "GunAndHeat"       -> enter_gun_and_heat_stage(w)
                 [] s = "CollectExotic"    -> enter_collect_exotic_stage(w)
                 [] s = "ShieldAndStrange" -> enter_shield_and_strange_stage(w)
                 [] s = "Continuum"        -> enter_continuum_stage(w)
                 [] s = "End"              -> enter_end_stage(w)
                 [] OTHER                  -> w
    IN  [ran EXCEPT !.hook_log = Append(@, <<"OnEnter", s>>)]

\* UI cameras that are told apart: none, one, more than one
MaxUiCameras == 2

\* A setup that leaves the rule list of the run before in place.
setup_keeping_reactions(w) ==
    [w EXCEPT !.rock_limit     = RockLimitDefault,
              !.player         = TRUE,
              !.inventory      = InventoryDefault,
              !.heat           = HeatDefault,
              !.main_gun       = MainGunDefault,
              !.shield_emitter = ShieldEmitterDefault,
              !.cargo_dumper   = CargoDumperDefault,
              !.ui_cameras     = IF @ < MaxUiCameras THEN @ + 1 ELSE @,
              !.next_stage     = <<"Exploration">>]

\* setup_cleanup.rs, OnExit(GameState::Intro): setup_rocks, setup_reactions,
\* setup_player, setup_ui_camera, setup_progress_stage.  Nothing despawns the
\* camera setup_ui_camera spawns: every run adds one.
setup(w) ==
    [w EXCEPT !.rock_limit     = RockLimitDefault,
              !.reactions      = ReactionsDefault,
              !.player         = TRUE,
              !.inventory      = InventoryDefault,
              !.heat           = HeatDefault,
              !.main_gun       = MainGunDefault,
              !.shield_emitter = ShieldEmitterDefault,
              !.cargo_dumper   = CargoDumperDefault,
              !.ui_cameras     = IF @ < MaxUiCameras THEN @ + 1 ELSE @,
              !.next_stage     = <<"Exploration">>]

\* A cleanup that leaves the rocks in the world.
cleanup_keeping_rocks(w) ==
    [w EXCEPT !.player         = FALSE,
              !.inventory      = InventoryDefault,
              !.heat           = HeatDefault,
              !.main_gun       = MainGunDefault,
              !.shield_emitter = ShieldEmitterDefault,
              !.cargo_dumper   = CargoDumperDefault,
              !.exotic_chunks  = 0,
              !.strange_chunks = 0,
              !.minerals       = 0,
              !.fragments      = 0]

\* setup_cleanup.rs, OnEnter(GameState::Outro): cleanup_player,
\* cleanup_collectibles, cleanup_rocks.  The components of the despawned player
\* are gone; their variables hold the values the next PlayerBundle starts with.
cleanup(w) ==
    [w EXCEPT !.player         = FALSE,
              !.inventory      = InventoryDefault,
              !.heat           = HeatDefault,
              !.main_gun       = MainGunDefault,
              !.shield_emitter = ShieldEmitterDefault,
              !.cargo_dumper   = CargoDumperDefault,
              !.exotic_chunks  = 0,
              !.strange_chunks = 0,
              !.rocks          = 0,
              !.minerals       = 0,
              !.fragments      = 0]

\* setup_cleanup.rs, OnEnter(GameState::MainMenu)
reset_progress_stage(w) == [w EXCEPT !.next_stage = <<"None">>]

OnExitGameState(s, w) == IF s = "Intro" THEN setup(w) ELSE w

OnEnterGameState(s, w) ==
    CASE s = "Outro"    -> cleanup(w)
      [] s = "MainMenu" -> reset_progress_stage(w)
      [] OTHER          -> w

\* bevy's apply_state_transition::<GameState>: take the requested state, make it
\* current, run OnExit of the old state and then OnEnter of the new one.
ApplyGameStateTransition(w) ==
    IF w.next_state = <<>> THEN w
    ELSE LET entered == w.next_state[1]
             exited  == w.game_state
             w1      == [w EXCEPT !.next_state = <<>>, !.game_state = entered]
         IN  OnEnterGameState(entered, OnExitGameState(exited, w1))

\* A transition that runs the schedules the other way round.
ApplyStageTransitionEnterFirst(w) ==
    IF w.next_stage = <<>> THEN w
    ELSE LET entered == w.next_stage[1]
             exited  == w.stage
             w1      == [w EXCEPT !.next_stage = <<>>, !.stage = entered]
         IN  OnExitStage(exited, OnEnterStage(entered, w1))

\* bevy's apply_state_transition::<ProgressStages>
ApplyStageTransition(w) ==
    IF w.next_stage = <<>> THEN w
    ELSE LET entered == w.next_stage[1]
             exited  == w.stage
             w1      == [w EXCEPT !.next_stage = <<>>, !.stage = entered]
         IN  OnEnterStage(entered, OnExitStage(exited, w1))

\* The variables take the values of a world.
SetWorld(w) ==
    /\ game_state'     = w.game_state
    /\ next_state'     = w.next_state
    /\ stage'          = w.stage
    /\ next_stage'     = w.next_stage
    /\ fadeout'        = w.fadeout
    /\ ui_cameras'     = w.ui_cameras
    /\ hook_log'       = w.hook_log
    /\ reactions'      = w.reactions
    /\ player'         = w.player
    /\ inventory'      = w.inventory
    /\ heat'           = w.heat
    /\ main_gun'       = w.main_gun
    /\ shield_emitter' = w.shield_emitter
    /\ cargo_dumper'   = w.cargo_dumper
    /\ exotic_chunks'  = w.exotic_chunks
    /\ strange_chunks' = w.strange_chunks
    /\ rock_limit'     = w.rock_limit
    /\ rocks'          = w.rocks
    /\ minerals'       = w.minerals
    /\ fragments'      = w.fragments

\* CoreSet::StateTransitions of one frame: the two apply_state_transition systems
\* run before the update systems, in an order the schedule leaves open.
state_transitions(game_state_first) ==
    /\ next_state # <<>> \/ next_stage # <<>>
    /\ SetWorld(IF game_state_first
                THEN ApplyStageTransition(ApplyGameStateTransition(World))
                ELSE ApplyGameStateTransition(ApplyStageTransition(World)))
    /\ last_add' = <<>> /\ reagent_events' = <<>>
    \* setup_rocks spawns a new RockSpawner, its timer at 0
    /\ spawn_timer' = IF game_state = "Intro" /\ next_state # <<>> THEN 0 ELSE spawn_timer
    /\ UNCHANGED <<spawn_events, spawn_log, cull_field, last_heat, last_react>>

\* ------------------------------------------------------------------------
\* Update systems of the run
\* ------------------------------------------------------------------------
MaxChunks == 25     \* collectibles dump_cargo may leave in the world at a time

\* Frame times the update systems are explored with (in model time units): long
\* enough for the heat to decay and for a rule to use up its inputs.
FrameDts == {Secs(50)}

\* Collectibles of one kind the player or the shield touches together in one
\* frame: all n that are there.
ChunkBatches(n) == {n} \ {0}

stateVars == <<game_state, next_state, stage, next_stage, fadeout>>
gearVars  == <<player, main_gun, shield_emitter, cargo_dumper>>
chunkVars == <<exotic_chunks, strange_chunks>>

\* Run condition of the systems in OnUpdate(GameState::InGame)
InGame == game_state = "InGame"

CollectionEvent(reagent, amount) == [reagent |-> reagent, amount |-> amount]

\* The CollectionEvents of one frame: ten fragments of split rocks (1.0 each),
\* or the chunks left by dump_cargo and the shield (1.0 each).
CollectionBatches ==
    {[i \in 1..10 |-> CollectionEvent("Minerals", Amt(1))]}
    \cup {[i \in 1..k |-> CollectionEvent("Exotic", Amt(1))] :
            k \in ChunkBatches(exotic_chunks)}
    \cup {[i \in 1..k |-> CollectionEvent("Strange", Amt(1))] :
            k \in ChunkBatches(strange_chunks)}

\* Events that carry what the pool gained rather than what was collected.
CollectionSendsNet(evs) ==
    [i \in DOMAIN evs |->
        ReagentEvent(evs[i].reagent,
                     EntryAdd(inventory[evs[i].reagent], evs[i].amount).current
                        - inventory[evs[i].reagent].current)]

\* handle_collection_event, the ReagentEvent sent for each CollectionEvent
CollectionSends(evs) ==
    [i \in DOMAIN evs |-> ReagentEvent(evs[i].reagent, evs[i].amount)]

\* handle_collection_event, events i.. of evs
RECURSIVE CollectFrom(_, _, _)
CollectFrom(inv, evs, i) ==
    IF i > Len(evs) THEN inv
    ELSE CollectFrom([inv EXCEPT ![evs[i].reagent] = EntryAdd(@, evs[i].amount)],
                     evs, i + 1)

\* handle_collection_event: the events are those collectible::handle_collision
\* sent for the collectibles the player touched, which it despawned.
handle_collection_event(evs) ==
    /\ InGame /\ player
    /\ LET n == Len(evs)
       IN  /\ inventory' = CollectFrom(inventory, evs, 1)
           /\ reagent_events' = CollectionSends(evs)
           /\ last_add'  = <<[reagent |-> evs[n].reagent, amount |-> evs[n].amount,
                              before |-> CollectFrom(inventory, SubSeq(evs, 1, n - 1), 1)
                                            [evs[n].reagent]]>>
           /\ exotic_chunks'  = IF evs[1].reagent = "Exotic"
                                THEN exotic_chunks - n ELSE exotic_chunks
           /\ strange_chunks' = IF evs[1].reagent = "Strange"
                                THEN strange_chunks - n ELSE strange_chunks
    /\ hook_log' = <<>>
    /\ UNCHANGED <<rockVars, ui_cameras, last_heat, last_react, heat, stateVars, reactions, gearVars>>

\* A pass that applies the rules from the last to the first.
RECURSIVE ReactFromReversed(_, _, _, _, _)
ReactFromReversed(rules, i, inv, h, dt) ==
    IF i > Len(rules) THEN inv
    ELSE ReactionTick(rules[i], ReactFromReversed(rules, i + 1, inv, h, dt), h, dt).inventory

\* perform_reactions: rules i.. of the list, each on the pools left by the rules
\* before it
RECURSIVE ReactFrom(_, _, _, _, _)
ReactFrom(rules, i, inv, h, dt) ==
    IF i > Len(rules) THEN inv
    ELSE ReactFrom(rules, i + 1, ReactionTick(rules[i], inv, h, dt).inventory, h, dt)

\* perform_reactions: the events the rules i.. send
RECURSIVE ReactSendsFrom(_, _, _, _, _)
ReactSendsFrom(rules, i, inv, h, dt) ==
    IF i > Len(rules) THEN <<>>
    ELSE LET out == ReactionTick(rules[i], inv, h, dt)
         IN  out.events \o ReactSendsFrom(rules, i + 1, out.inventory, h, dt)

perform_reactions(dt) ==
    /\ InGame /\ player
    /\ inventory' = ReactFrom(reactions, 1, inventory, heat, dt)
    /\ reagent_events' = ReactSendsFrom(reactions, 1, inventory, heat, dt)
    /\ last_add' = <<>>
    /\ hook_log' = <<>>
    /\ UNCHANGED <<rockVars, ui_cameras, last_heat, last_react, heat, stateVars, reactions, gearVars,
                   chunkVars>>

\* tick_heat
tick_heat(dt) ==
    /\ InGame /\ player
    /\ heat' = HeatTick(heat, dt)
    /\ last_add' = <<>> /\ reagent_events' = <<>>
    /\ hook_log' = <<>>
    /\ UNCHANGED <<rockVars, ui_cameras, last_heat, last_react, inventory, stateVars, reactions,
                   gearVars, chunkVars>>

\* tick_gun_timer
tick_gun_timer(gun, dt) == [gun EXCEPT !.delay_timer = TimerTick(@, dt)]

\* A gun that fires whatever the heat.
fire_main_gun_overheating(gun, h) ==
    IF \/ ~gun.enabled
       \/ ~gun.delay_timer.finished
    THEN [main_gun |-> gun, heat |-> h]
    ELSE [main_gun |-> [gun EXCEPT !.delay_timer =
                                      [TimerReset(@) EXCEPT !.duration = gun.fire_delay]],
          heat     |-> HeatAdd(h, gun.heat_generated)]

\* fire_main_gun, with the fire input held: the MainGun and the Heat it leaves
fire_main_gun(gun, h) ==
    IF \/ ~gun.enabled
       \/ ~gun.delay_timer.finished
       \/ h.limit - h.current < gun.heat_generated
    THEN [main_gun |-> gun, heat |-> h]
    ELSE [main_gun |-> [gun EXCEPT !.delay_timer =
                                      [TimerReset(@) EXCEPT !.duration = gun.fire_delay]],
          heat     |-> HeatAdd(h, gun.heat_generated)]

\* (tick_gun_timer, fire_main_gun).chain()
main_gun_systems(dt) ==
    /\ InGame /\ player
    /\ LET out == fire_main_gun(tick_gun_timer(main_gun, dt), heat)
       IN  main_gun' = out.main_gun /\ heat' = out.heat
    /\ last_add' = <<>> /\ reagent_events' = <<>>
    /\ hook_log' = <<>>
    /\ UNCHANGED <<rockVars, ui_cameras, last_heat, last_react, inventory, stateVars, reactions,
                   player, shield_emitter, cargo_dumper, chunkVars>>

\* dump_cargo, with the dump input just pressed.  Each chunk is worth
\* amount / num_chunks: 1.0 for the whole amounts DumpExplored allows.
dump_cargo ==
    /\ InGame /\ player
    /\ cargo_dumper.enabled
    /\ LET amount     == inventory["Exotic"].current
           num_chunks == amount \div Scale
       IN  /\ num_chunks > 0
           /\ exotic_chunks + strange_chunks + num_chunks <= MaxChunks
           /\ inventory' = [inventory EXCEPT !["Exotic"] = EntryAdd(@, -amount)]
           /\ exotic_chunks' = exotic_chunks + num_chunks
    /\ last_add' = <<>> /\ reagent_events' = <<>>
    /\ hook_log' = <<>>
    /\ UNCHANGED <<rockVars, ui_cameras, last_heat, last_react, heat, stateVars, reactions, gearVars,
                   strange_chunks>>

\* handle_shield_collisions for k EXOTIC MATTER collectibles inside the shield:
\* each is despawned and replaced by a STRANGE MATTER collectible of its amount.
handle_shield_collisions(k) ==
    /\ InGame /\ player
    /\ shield_emitter.enabled
    /\ k <= exotic_chunks
    /\ exotic_chunks'  = exotic_chunks - k
    /\ strange_chunks' = strange_chunks + k
    /\ last_add' = <<>> /\ reagent_events' = <<>>
    /\ hook_log' = <<>>
    /\ UNCHANGED <<rockVars, ui_cameras, last_heat, last_react, inventory, heat, stateVars, reactions,
                   gearVars>>

\* ------------------------------------------------------------------------
\* Update hooks of the stages (state.rs).  They are in OnUpdate(ProgressStages::X)
\* only: they run in every GameState.
\* ------------------------------------------------------------------------
\* All that a stage update hook leaves alone.
StageRequestOnly ==
    /\ last_add' = <<>> /\ reagent_events' = <<>>
    /\ hook_log' = <<>>
    /\ UNCHANGED <<rockVars, ui_cameras, last_heat, last_react, inventory, heat, game_state, next_state,
                   stage, fadeout, reactions, gearVars, chunkVars>>

\* entry.fraction() >= entry.threshold().unwrap()
ThresholdReached(entry) ==
    entry.threshold # <<>> /\ FractionAtLeast(entry, entry.threshold[1])

update_exploration_stage ==
    /\ stage = "Exploration" /\ player
    /\ ThresholdReached(inventory["Minerals"])
    /\ next_stage' = <<"GunAndHeat">>
    /\ StageRequestOnly

update_gun_and_heat_stage ==
    /\ stage = "GunAndHeat" /\ player
    /\ inventory["Exotic"].current > 0
    /\ next_stage' = <<"CollectExotic">>
    /\ StageRequestOnly

update_collect_exotic_stage_skipping ==
    /\ stage = "CollectExotic" /\ player
    /\ ThresholdReached(inventory["Exotic"])
    /\ next_stage' = <<"Continuum">>
    /\ StageRequestOnly

update_collect_exotic_stage ==
    /\ stage = "CollectExotic" /\ player
    /\ ThresholdReached(inventory["Exotic"])
    /\ next_stage' = <<"ShieldAndStrange">>
    /\ StageRequestOnly

update_shield_and_strange_stage ==
    /\ stage = "ShieldAndStrange" /\ player
    /\ ThresholdReached(inventory["Strange"])
    /\ next_stage' = <<"Continuum">>
    /\ StageRequestOnly

update_continuum_stage ==
    /\ stage = "Continuum" /\ player
    /\ ThresholdReached(inventory["Continuum"])
    /\ next_stage' = <<"End">>
    /\ StageRequestOnly

\* update_end_stage: returns unless the game state is InGame and get_single finds
\* exactly one UI camera; ticks every FadeOut and requests Outro for each one that
\* has finished.
update_end_stage(dt) ==
    /\ stage = "End"
    /\ InGame
    /\ ui_cameras = 1
    /\ fadeout # <<>>
    /\ fadeout' = [i \in DOMAIN fadeout |-> TimerTick(fadeout[i], dt)]
    /\ next_state' = IF \E i \in DOMAIN fadeout : fadeout'[i].finished
                     THEN <<"Outro">> ELSE next_state
    /\ last_add' = <<>> /\ reagent_events' = <<>>
    /\ hook_log' = <<>>
    /\ UNCHANGED <<rockVars, ui_cameras, last_heat, last_react, inventory, heat, game_state, stage,
                   next_stage, reactions, gearVars, chunkVars>>

\* ------------------------------------------------------------------------
\* Menus (menu.rs)
\* ------------------------------------------------------------------------
MenuEvents == {"Resume", "Start", "Continue", "Restart"}

\* process_menu_event for one MenuEvent (Exit and Settings left out)
process_menu_event(ev) ==
    /\ \/ /\ ev = "Resume" /\ game_state = "Paused"
          /\ next_state' = <<"InGame">>
          /\ UNCHANGED next_stage
       \/ /\ ev = "Start" /\ game_state = "MainMenu"
          /\ next_state' = <<"Intro">>
          /\ next_stage' = <<"None">>
       \/ /\ ev = "Continue" /\ game_state = "Intro"
          /\ next_state' = <<"InGame">>
          /\ UNCHANGED next_stage
       \/ /\ ev = "Continue" /\ game_state = "Outro"
          /\ next_state' = <<"EndScreen">>
          /\ UNCHANGED next_stage
       \/ /\ ev = "Restart" /\ game_state = "EndScreen"
          /\ next_state' = <<"MainMenu">>
          /\ UNCHANGED next_stage
    /\ last_add' = <<>> /\ reagent_events' = <<>>
    /\ hook_log' = <<>>
    /\ UNCHANGED <<rockVars, ui_cameras, last_heat, last_react, inventory, heat, game_state, stage,
                   fadeout, reactions, gearVars, chunkVars>>

\* handle_menu_input with the Menu action just pressed, outside the settings
handle_menu_input ==
    /\ game_state \in {"InGame", "Paused"}
    /\ next_state' = IF game_state = "InGame" THEN <<"Paused">> ELSE <<"InGame">>
    /\ last_add' = <<>> /\ reagent_events' = <<>>
    /\ hook_log' = <<>>
    /\ UNCHANGED <<rockVars, ui_cameras, last_heat, last_react, inventory, heat, game_state, stage,
                   next_stage, fadeout, reactions, gearVars, chunkVars>>

\* ------------------------------------------------------------------------
\* Specification of the game: menus, runs, progression and economy
\* ------------------------------------------------------------------------
\* After start-up: the main menu was entered (reset_progress_stage has requested
\* ProgressStages::None), setup_reactions has inserted the rule list, and there is
\* no player.
Init ==
    /\ RocksIdle
    /\ EconIdle
    /\ game_state     = "MainMenu"
    /\ next_state     = <<>>
    /\ stage          = "None"
    /\ next_stage     = <<"None">>
    /\ fadeout        = <<>>
    /\ ui_cameras     = 0
    /\ hook_log       = <<>>
    /\ reactions      = ReactionsDefault
    /\ player         = FALSE
    /\ main_gun       = MainGunDefault
    /\ shield_emitter = ShieldEmitterDefault
    /\ cargo_dumper   = CargoDumperDefault
    /\ exotic_chunks  = 0
    /\ strange_chunks = 0

\* The dump input is explored while the EXOTIC MATTER pool is full.
DumpExplored == inventory["Exotic"].current = inventory["Exotic"].limit

Next ==
    \/ \E game_state_first \in BOOLEAN : state_transitions(game_state_first)
    \/ \E ev \in MenuEvents : process_menu_event(ev)
    \/ handle_menu_input
    \/ \E evs \in CollectionBatches : handle_collection_event(evs)
    \/ \E dt \in FrameDts : perform_reactions(dt)
    \/ \E dt \in FrameDts : tick_heat(dt)
    \/ \E dt \in FrameDts : main_gun_systems(dt)
    \/ DumpExplored /\ dump_cargo
    \/ \E k \in ChunkBatches(exotic_chunks) : handle_shield_collisions(k)
    \/ update_exploration_stage
    \/ update_gun_and_heat_stage
    \/ update_collect_exotic_stage
    \/ update_shield_and_strange_stage
    \/ update_continuum_stage
    \/ \E dt \in FrameDts : update_end_stage(dt)

Spec == Init /\ [][Next]_vars

\* ------------------------------------------------------------------------
\* Specification of the stage update hooks on their own: a run that has advanced
\* to some stage holds sampled amounts in the pools it has unlocked, and the
\* update hooks run.
\* ------------------------------------------------------------------------
\* The threshold (in percent) the stages set on each pool.
StageThreshold(reagent) == IF reagent = "Continuum" THEN 99 ELSE 90

\* Amounts a pool is sampled at: empty, one model unit under its threshold,
\* exactly at it, full.
HookPoolSamples(reagent) ==
    LET limit == InventoryDefault[reagent].limit
        at    == (StageThreshold(reagent) * limit) \div 100
    IN  {0, at - 1, at, limit}

\* The pools that can hold something in a stage.
UnlockedPools(s) ==
    CASE s = "Exploration"      -> {"Minerals"}
      [] s = "GunAndHeat"       -> {"Minerals", "Exotic"}
      [] s = "CollectExotic"    -> {"Minerals", "Exotic"}
      [] s = "ShieldAndStrange" -> {"Minerals", "Exotic", "Strange"}
      [] s = "Continuum"        -> Reagents
      [] OTHER                  -> {}

\* The world before a run: the components of the player hold their defaults.
IdleWorld ==
    [game_state |-> "Intro", next_state |-> <<>>,
     stage |-> "None", next_stage |-> <<>>,
     fadeout |-> <<>>, ui_cameras |-> 0,
     hook_log |-> <<>>, reactions |-> ReactionsDefault,
     player |-> FALSE, inventory |-> InventoryDefault, heat |-> HeatDefault,
     main_gun |-> MainGunDefault, shield_emitter |-> ShieldEmitterDefault,
     cargo_dumper |-> CargoDumperDefault,
     exotic_chunks |-> 0, strange_chunks |-> 0,
     rock_limit |-> RockLimitDefault, rocks |-> 0, minerals |-> 0, fragments |-> 0]

\* The world of a run after the stage transitions that lead to stage s.
RECURSIVE AdvancedTo(_, _)
AdvancedTo(w, s) ==
    IF w.stage = s THEN w
    ELSE AdvancedTo(
            ApplyStageTransition(
                [w EXCEPT !.next_stage = <<StageOrder[StageIndex(w.stage) + 1]>>]),
            s)

RunAt(s) ==
    AdvancedTo(ApplyGameStateTransition([IdleWorld EXCEPT !.next_state = <<"InGame">>]), s)

HookStages == {"Exploration", "GunAndHeat", "CollectExotic", "ShieldAndStrange", "Continuum"}

\* A run advanced to one of the stages, its unlocked pools holding sampled amounts.
SampledRun ==
    /\ RocksIdle
    /\ last_add = <<>> /\ last_heat = <<>> /\ last_react = <<>>
    /\ reagent_events = <<>>
    /\ stage \in HookStages
    /\ next_state = <<>>
    /\ next_stage = <<>>
    /\ fadeout = RunAt(stage).fadeout
    /\ ui_cameras = RunAt(stage).ui_cameras
    /\ hook_log = <<>>
    /\ reactions = RunAt(stage).reactions
    /\ player = RunAt(stage).player
    /\ main_gun = RunAt(stage).main_gun
    /\ shield_emitter = RunAt(stage).shield_emitter
    /\ cargo_dumper = RunAt(stage).cargo_dumper
    /\ \E amounts \in [Reagents -> UNION {HookPoolSamples(r) : r \in Reagents}] :
          /\ \A r \in Reagents :
                amounts[r] \in (IF r \in UnlockedPools(stage)
                                THEN HookPoolSamples(r) ELSE {0})
          /\ inventory = [r \in Reagents |->
                            [RunAt(stage).inventory[r] EXCEPT !.current = amounts[r]]]

InitHooks ==
    /\ SampledRun
    /\ heat = RunAt(stage).heat
    /\ game_state \in {"InGame", "Paused"}
    /\ exotic_chunks = 0
    /\ strange_chunks = 0

NextHooks ==
    \/ update_exploration_stage
    \/ update_gun_and_heat_stage
    \/ update_collect_exotic_stage
    \/ update_shield_and_strange_stage
    \/ update_continuum_stage

SpecHooks == InitHooks /\ [][NextHooks]_vars

\* ------------------------------------------------------------------------
\* Specification of handle_collection_event on its own: the player of a sampled
\* run touches one collectible.
\* ------------------------------------------------------------------------
InitCollect ==
    /\ SampledRun
    /\ heat = RunAt(stage).heat
    /\ game_state = "InGame"
    /\ exotic_chunks = IF "Exotic" \in UnlockedPools(stage) THEN 1 ELSE 0
    /\ strange_chunks = IF "Strange" \in UnlockedPools(stage) THEN 1 ELSE 0

\* Collectibles are made of minerals (from rocks), exotic chunks (dump_cargo) and
\* strange chunks (the shield); the amounts sampled are 1.0 and 5.0.
NextCollect ==
    \E reagent \in {"Minerals", "Exotic", "Strange"}, amount \in {Amt(1), Amt(5)} :
        /\ last_add = <<>>
        /\ reagent \in UnlockedPools(stage)
        /\ handle_collection_event(<<CollectionEvent(reagent, amount)>>)

SpecCollect == InitCollect /\ [][NextCollect]_vars

\* ------------------------------------------------------------------------
\* Specification of the collisions of one collectible: an EXOTIC MATTER chunk
\* of a sampled run, in a stage where the shield and the cargo dumper work, is
\* reported by the physics step in CollisionEvent::Started with the player,
\* with the shield, or with both.
\* ------------------------------------------------------------------------
\* collectible::handle_collision (the chunk touched the player: CollectionEvent
\* sent, despawn queued), shield::handle_collision and handle_shield_collisions
\* (the chunk touched the shield: despawn queued, a STRANGE MATTER collectible
\* of the same amount spawned) and handle_collection_event, for one chunk of
\* `amount`.  Neither handler looks at what the other did with the entity.
collectible_collisions(amount, with_player, with_shield) ==
    /\ InGame /\ player
    /\ with_player \/ with_shield
    /\ with_shield => shield_emitter.enabled
    /\ exotic_chunks > 0
    /\ exotic_chunks' = exotic_chunks - 1
    /\ strange_chunks' = IF with_shield THEN strange_chunks + 1 ELSE strange_chunks
    /\ LET evs == IF with_player THEN <<CollectionEvent("Exotic", amount)>> ELSE <<>>
       IN  /\ inventory' = CollectFrom(inventory, evs, 1)
           /\ reagent_events' = CollectionSends(evs)
           /\ last_add' = [i \in DOMAIN evs |->
                             [reagent |-> evs[i].reagent, amount |-> evs[i].amount,
                              before |-> inventory[evs[i].reagent]]]
    /\ hook_log' = <<>>
    /\ UNCHANGED <<rockVars, ui_cameras, last_heat, last_react, heat, stateVars, reactions, gearVars>>

InitTouch ==
    /\ SampledRun
    /\ stage \in {"ShieldAndStrange", "Continuum"}
    /\ heat = RunAt(stage).heat
    /\ game_state = "InGame"
    /\ exotic_chunks = 1
    /\ strange_chunks = 0

NextTouch ==
    \E amount \in {Amt(1), Amt(5)}, with_player, with_shield \in BOOLEAN :
        collectible_collisions(amount, with_player, with_shield)

SpecTouch == InitTouch /\ [][NextTouch]_vars

\* ------------------------------------------------------------------------
\* Specification of the population across runs: a run that has reached the End
\* stage with the spawner, the cull and rock destruction at work, its fade-out,
\* the screens after it and the run started from the main menu afterwards.
\* The rock systems are in OnUpdate(GameState::InGame).
\* ------------------------------------------------------------------------
InitRestart ==
    /\ RocksIdle
    /\ last_add = <<>> /\ last_heat = <<>> /\ last_react = <<>>
    /\ reagent_events = <<>>
    /\ game_state = "InGame"
    /\ next_state = <<>>
    /\ stage = "End"
    /\ next_stage = <<>>
    /\ hook_log = <<>>
    /\ fadeout = RunAt("End").fadeout
    /\ ui_cameras = RunAt("End").ui_cameras
    /\ reactions = RunAt("End").reactions
    /\ player = RunAt("End").player
    /\ inventory = RunAt("End").inventory
    /\ heat = RunAt("End").heat
    /\ main_gun = RunAt("End").main_gun
    /\ shield_emitter = RunAt("End").shield_emitter
    /\ cargo_dumper = RunAt("End").cargo_dumper
    /\ exotic_chunks = 0
    /\ strange_chunks = 0

NextRestart ==
    \/ \E game_state_first \in BOOLEAN : state_transitions(game_state_first)
    \/ \E ev \in MenuEvents : process_menu_event(ev)
    \/ handle_menu_input
    \/ \E dt \in FrameDts : update_end_stage(dt)
    \/ InGame /\ NextRocks

SpecRestart == InitRestart /\ [][NextRestart]_vars

\* ------------------------------------------------------------------------
\* Specification of the main gun on its own: the gun of a run that has advanced
\* to some stage is ticked and fired, frame after frame, with the fire input
\* held or not.
\* ------------------------------------------------------------------------
MaxGunDt == 2       \* a frame lasts 0..MaxGunDt time units

\* The time since the latest shot counts up to this.
GunQuietCap == 3

\* (tick_gun_timer, fire_main_gun).chain() for one frame of dt; the input
\* FireMainGun is held in this frame or not.  last_heat keeps the frame:
\*   fired  a shot was made in it;
\*   gap    the time from the shot before (<<>> before the first shot) up to
\*          the end of this frame, or up to its shot.
main_gun_frame(dt, pressed) ==
    /\ InGame /\ player
    /\ LET ticked == tick_gun_timer(main_gun, dt)
           out    == IF pressed THEN fire_main_gun(ticked, heat)
                     ELSE [main_gun |-> ticked, heat |-> heat]
           fired  == out.main_gun # ticked \/ out.heat # heat
           since  == IF last_heat = <<>> THEN <<>>
                     ELSE IF last_heat[1].fired THEN <<dt>>
                     ELSE IF last_heat[1].gap = <<>> THEN <<>>
                     ELSE <<Min(last_heat[1].gap[1] + dt, GunQuietCap)>>
       IN  /\ main_gun' = out.main_gun
           /\ heat' = out.heat
           /\ last_heat' = <<[dt |-> dt, pressed |-> pressed, fired |-> fired,
                               gap |-> since, gun |-> main_gun, heat |-> heat]>>
    /\ UNCHANGED <<rockVars, ui_cameras, inventory, last_add, last_react, reagent_events, stateVars,
                   hook_log, reactions, player, shield_emitter, cargo_dumper, chunkVars>>

InitGun ==
    /\ SampledRun
    /\ inventory = RunAt(stage).inventory
    /\ heat = RunAt(stage).heat
    /\ game_state = "InGame"
    /\ exotic_chunks = 0
    /\ strange_chunks = 0

NextGun == \E dt \in 0..MaxGunDt, pressed \in BOOLEAN : main_gun_frame(dt, pressed)

SpecGun == InitGun /\ [][NextGun]_vars

\* ------------------------------------------------------------------------
\* Specification of the End stage: a run that has advanced to End, either the
\* first run of the app or the run after one restart (setup_ui_camera has run
\* once more), with frames short enough that the fade takes several of them,
\* and the main gun at work meanwhile.
\* ------------------------------------------------------------------------
MaxEndDt == 2       \* the longest frame, in seconds

EndDts == 1..Secs(MaxEndDt)

InitEnd ==
    /\ RocksIdle
    /\ last_add = <<>> /\ last_heat = <<>> /\ last_react = <<>>
    /\ reagent_events = <<>>
    /\ game_state = "InGame"
    /\ next_state = <<>>
    /\ stage = "End"
    /\ next_stage = <<>>
    /\ hook_log = <<>>
    /\ fadeout = RunAt("End").fadeout
    /\ ui_cameras \in {RunAt("End").ui_cameras, setup(RunAt("End")).ui_cameras}
    /\ reactions = RunAt("End").reactions
    /\ player = RunAt("End").player
    /\ inventory = RunAt("End").inventory
    /\ heat = RunAt("End").heat
    /\ main_gun = RunAt("End").main_gun
    /\ shield_emitter = RunAt("End").shield_emitter
    /\ cargo_dumper = RunAt("End").cargo_dumper
    /\ exotic_chunks = 0
    /\ strange_chunks = 0

NextEnd ==
    \/ \E game_state_first \in BOOLEAN : state_transitions(game_state_first)
    \/ \E ev \in MenuEvents : process_menu_event(ev)
    \/ handle_menu_input
    \/ \E dt \in EndDts : update_end_stage(dt)
    \/ \E dt \in EndDts, pressed \in BOOLEAN : main_gun_frame(dt, pressed)

SpecEnd == InitEnd /\ [][NextEnd]_vars

\* Every frame applies the pending state transitions, and every frame of the End
\* stage runs update_end_stage: a system that can run again and again does run.
EndFairness ==
    /\ WF_vars(\E game_state_first \in BOOLEAN : state_transitions(game_state_first))
    /\ SF_vars(\E dt \in EndDts : update_end_stage(dt))

SpecEndFair == SpecEnd /\ EndFairness

\* ------------------------------------------------------------------------
\* Specification of one frame of a sampled run: handle_collection_event,
\* perform_reactions and the update hook of the current stage all run once, in
\* an order the schedule leaves open (none of them is ordered against another
\* in the plugins).
\* ------------------------------------------------------------------------
\* The request the update hook of stage s makes on inventory inv: the pending
\* request is replaced when the hook's condition holds, and kept otherwise.
StageCheck(s, inv, pending) ==
    CASE s = "Exploration" /\ ThresholdReached(inv["Minerals"])      -> <<"GunAndHeat">>
      [] s = "GunAndHeat" /\ inv["Exotic"].current > 0               -> <<"CollectExotic">>
      [] s = "CollectExotic" /\ ThresholdReached(inv["Exotic"])      -> <<"ShieldAndStrange">>
      [] s = "ShieldAndStrange" /\ ThresholdReached(inv["Strange"])  -> <<"Continuum">>
      [] s = "Continuum" /\ ThresholdReached(inv["Continuum"])       -> <<"End">>
      [] OTHER                                                       -> pending

\* The three systems, each from the frame's state f = [inventory, next_stage,
\* reagent_events] to the state it leaves.
FrameSystem(name, f, evs, dt) ==
    CASE name = "handle_collection_event" ->
            [f EXCEPT !.inventory = CollectFrom(f.inventory, evs, 1),
                      !.reagent_events = @ \o CollectionSends(evs)]
      [] name = "perform_reactions" ->
            [f EXCEPT !.inventory = ReactFrom(reactions, 1, f.inventory, heat, dt),
                      !.reagent_events =
                            @ \o ReactSendsFrom(reactions, 1, f.inventory, heat, dt)]
      [] name = "update_stage" ->
            [f EXCEPT !.next_stage = StageCheck(stage, f.inventory, f.next_stage)]

RECURSIVE FrameFrom(_, _, _, _, _)
FrameFrom(order, i, f, evs, dt) ==
    IF i > Len(order) THEN f
    ELSE FrameFrom(order, i + 1, FrameSystem(order[i], f, evs, dt), evs, dt)

\* One frame of CoreSet::Update while InGame, the player touching the
\* collectibles evs.
update_frame(order, evs, dt) ==
    /\ InGame /\ player
    /\ next_stage = <<>>
    /\ LET f == FrameFrom(order, 1,
                          [inventory |-> inventory, next_stage |-> next_stage,
                           reagent_events |-> <<>>], evs, dt)
           picked(r) == Cardinality({i \in DOMAIN evs : evs[i].reagent = r})
       IN  /\ picked("Exotic") <= exotic_chunks /\ picked("Strange") <= strange_chunks
           /\ inventory' = f.inventory
           /\ next_stage' = f.next_stage
           /\ reagent_events' = f.reagent_events
           /\ exotic_chunks' = exotic_chunks - picked("Exotic")
           /\ strange_chunks' = strange_chunks - picked("Strange")
    /\ last_add' = <<>>
    /\ hook_log' = <<>>
    /\ UNCHANGED <<rockVars, ui_cameras, last_heat, last_react, heat, game_state, next_state, stage,
                   fadeout, reactions, gearVars>>

\* Heat of the sampled run: as the stage left it, or (once the gun works) full.
InitFrame ==
    /\ SampledRun
    /\ heat \in {RunAt(stage).heat}
                \cup {[RunAt(stage).heat EXCEPT !.current = @ + Amt(HEAT_LIMIT)] :
                        s \in {stage} \ {"Exploration"}}
    /\ game_state = "InGame"
    /\ exotic_chunks = IF "Exotic" \in UnlockedPools(stage) THEN 1 ELSE 0
    /\ strange_chunks = IF "Strange" \in UnlockedPools(stage) THEN 1 ELSE 0

\* A frame: CoreSet::StateTransitions comes before CoreSet::Update, so the
\* systems of Update run once no request is pending.  The frames explored are
\* the first after the sampled state and the first after each transition: half
\* a second in which the player touches nothing or one collectible of 1.0.
NextFrame ==
    \/ \E game_state_first \in BOOLEAN : state_transitions(game_state_first)
    \/ \E order \in {o \in [1..3 -> {"handle_collection_event", "perform_reactions",
                                    "update_stage"}] :
                    \A i, j \in 1..3 : i # j => o[i] # o[j]} :
       \E evs \in {<<>>} \cup {<<CollectionEvent(r, Amt(1))>> :
                                   r \in UnlockedPools(stage) \ {"Continuum"}} :
           /\ reagent_events = <<>>
           /\ update_frame(order, evs, 1)

SpecFrame == InitFrame /\ [][NextFrame]_vars

\* ------------------------------------------------------------------------
\* Specification of culling by position: a few rocks and cluster minerals lie
\* around the cull radius, the camera moves, cull_far_away_entities runs.
\* ------------------------------------------------------------------------
MaxCullObjects == 2

\* Positions inside the radius of 75, on it (on an axis and off it) and beyond it.
CullSpots == {<<0, 0>>, <<74, 0>>, <<75, 0>>, <<76, 0>>, <<45, 60>>, <<46, 60>>, <<-75, 0>>}

InitCull ==
    /\ \E objects \in [1..MaxCullObjects ->
                        [pos : CullSpots, max_distance : {CULL_MAX_DISTANCE},
                         rock : BOOLEAN, live : {TRUE}]] :
          /\ cull_field = [camera |-> <<0, 0>>, objects |-> objects]
          /\ rocks = Cardinality({i \in DOMAIN objects : objects[i].rock})
          /\ minerals = Cardinality({i \in DOMAIN objects : ~objects[i].rock})
          /\ rock_limit = [RockLimitDefault EXCEPT !.current = MaxCullObjects]
    /\ fragments    = 0
    /\ spawn_events = <<>>
    /\ spawn_timer  = 0
    /\ spawn_log    = <<>>
    /\ EconIdle
    /\ ProgIdle

\* The camera follows the player.
move_camera(to) ==
    /\ to # cull_field.camera
    /\ cull_field' = [cull_field EXCEPT !.camera = to]
    /\ UNCHANGED <<rock_limit, rocks, minerals, fragments, spawn_events, spawn_timer,
                   spawn_log>>

NextCull ==
    \/ cull_far_away_entities_tick /\ UNCHANGED <<econVars, progVars>>
    \/ \E to \in {<<0, 0>>, <<1, 0>>} : move_camera(to) /\ UNCHANGED <<econVars, progVars>>

SpecCull == InitCull /\ [][NextCull]_vars

\* ========================================================================
\* Claims
\* ========================================================================

\* C1: in every reachable state of the population manager, after any sequence of
\* cluster spawn requests, culls and rock destructions, RockLimit.current never
\* exceeds RockLimit.limit.
C1_CounterWithinCap == rock_limit.current <= rock_limit.limit

\* The counter sits at the cap, rocks were destroyed before, and the latest
\* request was turned down.
C1_Witness ==
    /\ rock_limit.current = rock_limit.limit
    /\ Uncounted > 0
    /\ spawn_log # <<>>
    /\ ~spawn_log[Len(spawn_log)].accepted

\* C2: in every reachable state every reagent pool of the player's inventory
\* satisfies 0 <= current <= limit, whatever sequence of collection events,
\* reaction ticks, cargo dumps and stage exit debits has been applied; over-fill
\* saturates at the limit.
C2_PoolsWithinLimits ==
    \A r \in Reagents :
        0 <= inventory[r].current /\ inventory[r].current <= inventory[r].limit

\* Continuum has been produced (so minerals were collected and debited at the
\* exit of Exploration, cargo was dumped and both rules have reacted), and the
\* latest collection over-filled its pool, which sits at its limit.
C2_Witness ==
    /\ player
    /\ inventory["Continuum"].current > 0
    /\ \E i \in DOMAIN last_add :
          /\ last_add[i].before.current + last_add[i].amount
                > inventory[last_add[i].reagent].limit
          /\ inventory[last_add[i].reagent].current = inventory[last_add[i].reagent].limit

\* C3: every change of the progression stage is an advance by exactly one stage
\* in the declared order None (before a run), Exploration, GunAndHeat,
\* CollectExotic, ShieldAndStrange, Continuum, End, or it is the reset to None
\* that entering the main menu requests when the whole run is restarted.
C3_StageOrder ==
    [][stage' # stage =>
          \/ StageIndex(stage') = StageIndex(stage) + 1
          \/ stage' = "None" /\ game_state' \in {"MainMenu", "Intro"}]_vars

\* A run went through all stages to End, the game was restarted into the main
\* menu and the reset of the stage is requested.
C3_Witness ==
    /\ stage = "End"
    /\ game_state = "MainMenu"
    /\ next_stage = <<"None">>

\* C4: the population counter equals the number of live objects that were
\* created by accepted cluster spawns (rocks and cluster minerals).
C4_CounterEqualsLive == rock_limit.current = rocks + minerals

\* C5: a cluster spawn request with current + requested > cap is rejected in
\* full (no object created, counter unchanged; cap 150, current 145, request 10
\* leaves 145), and a request with current + requested = cap is not rejected.
C5_RejectedInFull ==
    /\ \A i \in DOMAIN spawn_log :
         LET e == spawn_log[i] IN
         /\ e.number + e.before > rock_limit.limit =>
              ~e.accepted /\ e.after = e.before /\ e.rocks = 0 /\ e.minerals = 0
         /\ e.number + e.before = rock_limit.limit => e.accepted
    /\ LET e == SpawnOne(10, 0, [current |-> 145, limit |-> 150]) IN
         ~e.accepted /\ e.after = 145 /\ e.rocks = 0 /\ e.minerals = 0

\* One run of spawn_rocks accepted a request that fills the cap exactly and
\* rejected the next one.
C5_Witness ==
    \E i, j \in DOMAIN spawn_log :
        /\ spawn_log[i].accepted
        /\ spawn_log[i].number + spawn_log[i].before = rock_limit.limit
        /\ ~spawn_log[j].accepted
        /\ spawn_log[j].number + spawn_log[j].before > rock_limit.limit
        /\ rock_limit.current = spawn_log[j].before

\* C6: an accepted cluster spawn request increases the counter by the full
\* requested count and creates exactly that many objects, each a plain rock or a
\* mineral collectible.
C6_AcceptedReservesFullCount ==
    \A i \in DOMAIN spawn_log :
        LET e == spawn_log[i] IN
        e.accepted =>
            /\ e.after = e.before + e.number
            /\ e.rocks + e.minerals = e.number
            /\ e.rocks >= 0 /\ e.minerals >= 0

\* An accepted cluster that holds a mineral among its rocks.
C6_Witness ==
    \E i \in DOMAIN spawn_log :
        /\ spawn_log[i].accepted
        /\ spawn_log[i].minerals > 0
        /\ spawn_log[i].rocks > 0
        /\ rock_limit.current >= spawn_log[i].after

\* C7: for every current, limit and amount (positive, zero or negative),
\* add(amount) leaves current' = clamp(current + amount, 0, limit), hence
\* 0 <= current' <= limit.
C7_AddClamps ==
    \A i \in DOMAIN last_add :
        LET c   == last_add[i]
            e   == inventory[c.reagent]
            sum == c.before.current + c.amount
        IN  /\ e.current = Max(0, Min(e.limit, sum))
            /\ 0 <= e.current /\ e.current <= e.limit

\* An over-draw of a pool that held something: it saturates at 0.
C7_Witness ==
    \E i \in DOMAIN last_add :
        /\ last_add[i].before.current > 0
        /\ last_add[i].before.current + last_add[i].amount < 0
        /\ inventory[last_add[i].reagent].current = 0

\* C8: in every reachable state Heat satisfies 0 <= current <= limit, after any
\* interleaving of add(delta) and tick(dt) calls.
C8_HeatWithinLimit == 0 <= heat.current /\ heat.current <= heat.limit

\* A tick whose decay exceeds the heat that was left.
C8_Witness ==
    \E i \in DOMAIN last_heat :
        /\ last_heat[i].op = "tick"
        /\ last_heat[i].before.decay_timer.finished
        /\ last_heat[i].before.current > 0
        /\ last_heat[i].before.current < last_heat[i].before.decay_rate * last_heat[i].arg
        /\ heat.current = 0

\* C9: a rule with needs_heat is skipped entirely (no pool changes, no
\* ReagentEvent) when heat.can_react() is false; can_react() holds exactly when
\* current / limit is strictly greater than reaction_threshold, so heat exactly
\* at the threshold does not permit the reaction.
C9_HeatGate ==
    \A i \in DOMAIN last_react :
        LET c   == last_react[i]
            hot == c.heat.current * 100 > c.heat.reaction_threshold * c.heat.limit
        IN  c.rule.needs_heat =>
              /\ ~hot => inventory = c.before /\ c.events = <<>>
              /\ hot  => c.events # <<>>

\* Heat exactly at the threshold, input available, time passing: nothing reacts.
C9_Witness ==
    \E i \in DOMAIN last_react :
        LET c == last_react[i] IN
        /\ c.rule.needs_heat
        /\ c.heat.current * 100 = c.heat.reaction_threshold * c.heat.limit
        /\ c.before[c.rule.reagent1].current > 0
        /\ c.rule.reagent2 # None => c.before[c.rule.reagent2].current > 0
        /\ c.before[c.rule.result].current < c.before[c.rule.result].limit
        /\ c.dt > 0
        /\ inventory = c.before

\* C10: for a rule that passes the heat gate the amount reacted is
\* min(reagent1.current, reagent2.current if any, dt * rate), further limited to
\* the result pool's headroom when there is a result; each input pool decreases
\* by exactly that amount, so by at most dt * rate and at most its prior current.
C10_AmountReacted ==
    \A i \in DOMAIN last_react :
        LET c  == last_react[i]
            r  == c.rule
            b  == c.before
            passes == ~r.needs_heat
                      \/ c.heat.current * 100 > c.heat.reaction_threshold * c.heat.limit
            inputs == IF r.reagent2 # None
                      THEN Min(b[r.reagent1].current, b[r.reagent2].current)
                      ELSE b[r.reagent1].current
            rated  == Min(inputs, c.dt * r.rate)
            amount == IF r.result # None
                      THEN Min(rated, b[r.result].limit - b[r.result].current)
                      ELSE rated
        IN  passes =>
              /\ inventory[r.reagent1].current = b[r.reagent1].current - amount
              /\ r.reagent2 # None =>
                   inventory[r.reagent2].current = b[r.reagent2].current - amount
              /\ r.result # None =>
                   inventory[r.result].current = b[r.result].current + amount
              /\ b[r.reagent1].current - inventory[r.reagent1].current <= c.dt * r.rate
              /\ b[r.reagent1].current - inventory[r.reagent1].current <= b[r.reagent1].current
              /\ \A k \in DOMAIN c.events :
                   c.events[k].delta = amount \/ c.events[k].delta = -amount

\* Minerals 1.0, Exotic 0 of 25, rate 0.5, dt 1.0: Minerals 0.5 and Exotic 0.5.
C10_Witness ==
    \E i \in DOMAIN last_react :
        LET c == last_react[i] IN
        /\ c.rule = MineralsToExotic
        /\ c.dt = Secs(1)
        /\ c.before["Minerals"].current = Amt(1)
        /\ c.before["Exotic"].current = 0
        /\ inventory["Minerals"].current * 2 = Amt(1)
        /\ inventory["Exotic"].current * 2 = Amt(1)

\* C11: if the result pool of a rule is at its limit before a tick, applying the
\* rule in that tick changes the current amount of none of the rule's pools:
\* neither the result nor any input.
C11_FullResultNoChange ==
    \A i \in DOMAIN last_react :
        LET c == last_react[i]
            r == c.rule
            b == c.before
        IN  (r.result # None /\ b[r.result].current = b[r.result].limit) =>
              /\ inventory[r.result].current = b[r.result].current
              /\ inventory[r.reagent1].current = b[r.reagent1].current
              /\ r.reagent2 # None =>
                   inventory[r.reagent2].current = b[r.reagent2].current

\* A rule that passed the heat gate with inputs at hand and time passing, whose
\* result pool was full: it was applied (events were sent) and moved nothing.
C11_Witness ==
    \E i \in DOMAIN last_react :
        LET c == last_react[i]
            r == c.rule
            b == c.before
        IN  /\ r.result # None
            /\ b[r.result].current = b[r.result].limit
            /\ b[r.reagent1].current > 0
            /\ r.reagent2 # None /\ b[r.reagent2].current > 0
            /\ c.dt > 0
            /\ c.events # <<>>
            /\ inventory = b

\* C12: a rule application on distinct pools uses one amount for all its pools:
\* the result pool rises by exactly the amount each input pool falls by (the
\* delta of the events sent), and the clamp of add takes no effect: every pool
\* ends at its prior amount plus the raw delta, which lies within [0, limit].
C12_OneAmountNoClamp ==
    \A i \in DOMAIN last_react :
        LET c == last_react[i]
            r == c.rule
            b == c.before
        IN  (c.events # <<>> /\ r.reagent1 # r.reagent2 /\ r.result # r.reagent1
                             /\ r.result # r.reagent2) =>
              \E amount \in {-c.events[Len(c.events)].delta} :
                 /\ amount >= 0
                 /\ \A k \in DOMAIN c.events :
                      LET ev  == c.events[k]
                          raw == b[ev.reagent].current + ev.delta
                      IN  /\ ev.delta = IF ev.reagent = r.result THEN amount ELSE -amount
                          /\ inventory[ev.reagent].current = raw
                          /\ 0 <= raw /\ raw <= b[ev.reagent].limit
                 /\ {c.events[k].reagent : k \in DOMAIN c.events}
                      = {r.reagent1, r.reagent2, r.result} \ {None}

\* A two-reagent rule whose amount was cut by the headroom of its result pool:
\* all three pools moved by that one amount.
C12_Witness ==
    \E i \in DOMAIN last_react :
        LET c == last_react[i]
            r == c.rule
            b == c.before
        IN  /\ r.reagent2 # None /\ r.result # None
            /\ Len(c.events) = 3
            /\ c.events[1].delta > 0
            /\ c.events[1].delta = b[r.result].limit - b[r.result].current
            /\ c.events[1].delta < Min(b[r.reagent1].current, b[r.reagent2].current)
            /\ c.events[1].delta < c.dt * r.rate
            /\ inventory[r.result].current = b[r.result].limit
            /\ inventory[r.reagent1].current = b[r.reagent1].current - c.events[1].delta
            /\ inventory[r.reagent2].current = b[r.reagent2].current - c.events[1].delta

\* C13: in each stage that gates on a threshold (Exploration on Minerals at 0.9,
\* CollectExotic on Exotic at 0.9, ShieldAndStrange on Strange at 0.9, Continuum
\* on Continuum at 0.99) the update hook requests the next stage in exactly the
\* ticks where the gating pool's fraction is at or above the threshold: the hook
\* can request if and only if current / limit >= threshold, and a request that
\* is pending names the next stage and was made with the threshold met.
C13_Gates ==
    <<<<"Exploration", "Minerals", 90, "GunAndHeat">>,
      <<"CollectExotic", "Exotic", 90, "ShieldAndStrange">>,
      <<"ShieldAndStrange", "Strange", 90, "Continuum">>,
      <<"Continuum", "Continuum", 99, "End">>>>

C13_Hook(s) ==
    CASE s = "Exploration"      -> ENABLED update_exploration_stage
      [] s = "CollectExotic"    -> ENABLED update_collect_exotic_stage
      [] s = "ShieldAndStrange" -> ENABLED update_shield_and_strange_stage
      [] s = "Continuum"        -> ENABLED update_continuum_stage

C13_RequestsExactlyAtThreshold ==
    \A i \in DOMAIN C13_Gates :
        LET g     == C13_Gates[i]
            entry == inventory[g[2]]
            met   == entry.current * 100 >= g[3] * entry.limit
        IN  (stage = g[1] /\ player) =>
              /\ C13_Hook(g[1]) <=> met
              /\ next_stage # <<>> => (met /\ next_stage = <<g[4]>>)

\* Minerals at 9.0 of 10 in Exploration: GunAndHeat has been requested.
C13_Witness ==
    /\ stage = "Exploration" /\ player
    /\ inventory["Minerals"].current = Amt(9)
    /\ inventory["Minerals"].limit = Amt(10)
    /\ next_stage = <<"GunAndHeat">>

\* C14: at most one pool has a threshold set, and a pool that has one is the
\* gating pool of the current stage (Minerals in Exploration, Exotic in
\* CollectExotic, Strange in ShieldAndStrange, Continuum in Continuum); every
\* stage clears its threshold on exit, so in None, GunAndHeat and End no pool
\* has a threshold.
C14_GatingPool(s) ==
    CASE s = "Exploration"      -> {"Minerals"}
      [] s = "CollectExotic"    -> {"Exotic"}
      [] s = "ShieldAndStrange" -> {"Strange"}
      [] s = "Continuum"        -> {"Continuum"}
      [] OTHER                  -> {}

C14_OneThreshold ==
    LET set == {r \in Reagents : inventory[r].threshold # <<>>}
    IN  /\ Cardinality(set) <= 1
        /\ set \subseteq C14_GatingPool(stage)

\* A later stage holds its own threshold after the earlier ones were cleared.
C14_Witness ==
    /\ stage = "ShieldAndStrange" /\ player
    /\ inventory["Strange"].threshold = <<90>>
    /\ inventory["Minerals"].threshold = <<>>
    /\ inventory["Exotic"].threshold = <<>>

\* C15: handling CollectionEvent{reagent, amount} adds amount to that pool with
\* clamping and sends one ReagentEvent for the same reagent whose delta is the
\* amount collected, not what the pool gained: Minerals at 9 of 10 and a
\* collection of 5 leave the pool at 10 and send a delta of 5.
C15_RawDelta ==
    \A i \in DOMAIN last_add :
        LET c == last_add[i]
        IN  /\ inventory[c.reagent].current
                 = Clamp(c.before.current + c.amount, 0, c.before.limit)
            /\ reagent_events = <<[reagent |-> c.reagent, delta |-> c.amount]>>

C15_Witness ==
    /\ last_add # <<>>
    /\ last_add[1].reagent = "Minerals"
    /\ last_add[1].before.current = Amt(9)
    /\ last_add[1].before.limit = Amt(10)
    /\ last_add[1].amount = Amt(5)
    /\ inventory["Minerals"].current = Amt(10)
    /\ reagent_events = <<[reagent |-> "Minerals", delta |-> Amt(5)]>>

\* C16: a ReagentEvent is raised on every inventory mutation: in every step in
\* which an operation changes the current amount of a pool of the player's
\* Inventory, a ReagentEvent for that reagent is sent in that step.  (Steps that
\* change the GameState are left out: they spawn or despawn the Inventory.)
C16_EventOnMutation ==
    [][\A r \in Reagents :
          (/\ player /\ player'
           /\ game_state' = game_state
           /\ inventory'[r].current # inventory[r].current)
          => \E i \in DOMAIN reagent_events' : reagent_events'[i].reagent = r]_vars

C18_StrictCull ==
    /\ [][\A i \in DOMAIN cull_field.objects :
            LET o  == cull_field.objects[i]
                d2 == DistanceSquared(o.pos, cull_field.camera)
                r2 == o.max_distance * o.max_distance
            IN  o.live =>
                  /\ d2 <= r2 => cull_field'.objects[i].live
                  /\ (d2 > r2 /\ cull_field'.camera = cull_field.camera)
                        => ~cull_field'.objects[i].live]_vars
    /\ []((\E i \in DOMAIN cull_field.objects :
              LET o == cull_field.objects[i]
              IN  /\ o.live
                  /\ DistanceSquared(o.pos, cull_field.camera)
                        > o.max_distance * o.max_distance)
          => ENABLED cull_far_away_entities_tick)

\* A culling run has removed an entity at distance 76 and kept one at distance
\* exactly 75 (off the axes: 45^2 + 60^2 = 75^2).
C18_Witness ==
    /\ cull_field.objects # <<>>
    /\ cull_field.camera = <<0, 0>>
    /\ cull_field.objects[1].pos = <<45, 60>>
    /\ cull_field.objects[1].max_distance = 75
    /\ cull_field.objects[1].live
    /\ cull_field.objects[2].pos = <<76, 0>>
    /\ ~cull_field.objects[2].live
    /\ rocks + minerals = 1

\* C19: Heat.add(delta) with delta > 0 restarts the decay delay at its full
\* duration: right after such an add the decay timer has nothing elapsed, and
\* no tick lowers heat.current until the ticks since the most recent positive
\* add total more than the full delay.
C19_DelayRestarts ==
    \A i \in DOMAIN last_heat :
        LET c == last_heat[i]
        IN  /\ (c.op = "add" /\ c.arg > 0) =>
                  /\ heat.decay_timer.elapsed = 0
                  /\ ~heat.decay_timer.finished
                  /\ TimerRemaining(heat.decay_timer) = (HEAT_DECAY_HALF_SECS * TimeScale) \div 2
            /\ (c.op = "tick" /\ c.quiet <= heat.decay_timer.duration) =>
                  heat.current >= c.before.current

\* Heat was added while the timer had finished, and ticks totalling exactly the
\* delay have passed since: the heat is still all there.
C19_Witness ==
    /\ last_heat # <<>>
    /\ last_heat[1].op = "tick"
    /\ last_heat[1].arg > 0
    /\ last_heat[1].quiet = heat.decay_timer.duration
    /\ last_heat[1].total = last_heat[1].quiet
    /\ last_heat[1].start.current = Amt(MAIN_GUN_HEAT)
    /\ heat.current = Amt(MAIN_GUN_HEAT)
    /\ heat.decay_timer.finished

\* C20: with no add() in between, ticking Heat with steps that sum to T leaves
\* the same current as one tick with dt = T, for every split, once T exceeds the
\* decay delay.
C20_SplitEqualsWhole ==
    \A i \in DOMAIN last_heat :
        LET c == last_heat[i]
        IN  (/\ c.op = "tick"
             /\ c.total < MaxHeatTotal
             /\ c.total > c.start.decay_timer.duration)
            => heat.current = HeatTick(c.start, c.total).current

\* The delay ran out in the middle of a later step of the split, and part of the
\* heat has decayed.
C20_Witness ==
    /\ last_heat # <<>>
    /\ last_heat[1].op = "tick"
    /\ last_heat[1].total < MaxHeatTotal
    /\ last_heat[1].arg < last_heat[1].total
    /\ last_heat[1].before.decay_timer.elapsed > 0
    /\ ~last_heat[1].before.decay_timer.finished
    /\ last_heat[1].arg > TimerRemaining(last_heat[1].before.decay_timer)
    /\ heat.current > 0
    /\ heat.current < last_heat[1].start.current
    /\ heat.current = HeatTick(last_heat[1].start, last_heat[1].total).current

\* C21: within one frame the progression check of the current stage runs after
\* that frame's collection handling and reaction pass: under every order of the
\* systems, a frame that leaves the gating pool of the current stage at or above
\* its threshold also leaves the next stage requested.
C21_RequestedInSameFrame ==
    [][\A r \in C14_GatingPool(stage) :
          (/\ ~ThresholdReached(inventory[r])
           /\ ThresholdReached(inventory'[r]))
          => next_stage' # <<>>]_vars

\* C22: when a stage's update hook has requested stage N+1, the exit hook of
\* stage N and then the enter hook of stage N+1 run, in that order, before the
\* update systems of the next frame: while a request is pending no update
\* system can run, the step that makes N+1 the current stage is the one that
\* ran OnExit(N) and then OnEnter(N+1), and so no update hook sees N+1 as
\* current before its enter hook has completed.
C22_ExitThenEnter ==
    /\ [][stage' # stage =>
            /\ next_stage = <<stage'>>
            /\ hook_log' = <<<<"OnExit", stage>>, <<"OnEnter", stage'>>>>]_vars
    /\ [](next_stage # <<>> =>
            ~ENABLED (\E order \in [1..3 -> {"handle_collection_event",
                                            "perform_reactions", "update_stage"}] :
                         update_frame(order, <<>>, 1)))
    /\ [](stage # "None" /\ hook_log # <<>> =>
            hook_log[Len(hook_log)] = <<"OnEnter", stage>>)

\* Exploration was left and GunAndHeat entered, in that order.
C22_Witness ==
    /\ stage = "GunAndHeat"
    /\ next_stage = <<>>
    /\ hook_log = <<<<"OnExit", "Exploration">>, <<"OnEnter", "GunAndHeat">>>>
    /\ inventory["Minerals"].current = 0
    /\ heat.enabled

\* C23: the transition out of Exploration debits the Minerals pool to exactly 0
\* and clears its threshold, leaving the other pools' amounts alone; the
\* transition out of every later stage leaves every pool's current amount
\* unchanged.
C23_ExitDebit ==
    [][(stage' # stage /\ player) =>
          IF stage = "Exploration"
          THEN /\ inventory'["Minerals"].current = 0
               /\ inventory'["Minerals"].threshold = <<>>
               /\ \A r \in Reagents \ {"Minerals"} :
                     inventory'[r].current = inventory[r].current
          ELSE \A r \in Reagents : inventory'[r].current = inventory[r].current]_vars

\* Exploration has just been left: the minerals that met the threshold are gone.
C23_Witness ==
    /\ hook_log # <<>>
    /\ hook_log[1] = <<"OnExit", "Exploration">>
    /\ player
    /\ inventory["Minerals"].current = 0
    /\ inventory["Minerals"].threshold = <<>>
    /\ inventory["Minerals"].limit = Amt(MINERALS_LIMIT)

\* C24: the assertion in the update hook of each thresholded stage never fails:
\* in every state in which update_exploration_stage, update_collect_exotic_stage,
\* update_shield_and_strange_stage or update_continuum_stage can run against
\* the player's inventory (the stage is current and the player exists), the
\* gating pool of the stage has its threshold set; this includes the first
\* frame of a run and a run started after a restart.
C24_ThresholdIsSet ==
    \A r \in C14_GatingPool(stage) : player => inventory[r].threshold # <<>>

\* The first frame of a run: Exploration has just been entered with a fresh
\* player, and the Minerals threshold is there.
C24_Witness ==
    /\ stage = "Exploration" /\ player /\ game_state = "InGame"
    /\ hook_log = <<<<"OnExit", "None">>, <<"OnEnter", "Exploration">>>>
    /\ inventory["Minerals"].threshold = <<90>>
    /\ inventory["Minerals"].current = 0

\* C25: the rules are applied in list order within a tick and each rule sees the
\* pools as the rules before it left them: with the list [Minerals -> Exotic,
\* Exotic + Strange -> Continuum] a reaction pass leaves the pools and sends the
\* events of the first rule applied to the pools of the tick's start followed
\* by those of the second rule applied to what the first left.
C25_ListOrder ==
    [][(/\ Len(reactions) = 2
        /\ Len(reagent_events') >= 2
        /\ reagent_events'[1].reagent # reagent_events'[2].reagent)
       => \E dt \in FrameDts :
            LET first  == ReactionTick(reactions[1], inventory, heat, dt)
                second == ReactionTick(reactions[2], first.inventory, heat, dt)
            IN  /\ reactions[1] = MineralsToExotic
                /\ reactions[2] = ExoticStrangeToContinuum
                /\ inventory' = second.inventory
                /\ reagent_events' = first.events \o second.events]_vars

\* A pass in which the second rule consumed the exotic matter the first rule
\* made in the same pass: both amounts are positive and no exotic matter is left.
C25_Witness ==
    /\ Len(reagent_events) = 5
    /\ reagent_events[1].reagent = "Exotic" /\ reagent_events[1].delta > 0
    /\ reagent_events[2].reagent = "Minerals"
    /\ reagent_events[3].reagent = "Continuum" /\ reagent_events[3].delta > 0
    /\ reagent_events[4].reagent = "Exotic"
    /\ reagent_events[4].delta = -reagent_events[3].delta
    /\ inventory["Exotic"].current = 0

\* C26: each rule application sends exactly one ReagentEvent per pool it
\* touches, in the order result, reagent1, reagent2, with the delta +amount for
\* the result and -amount for each input, amount >= 0 being what left
\* reagent1; a rule held back by the heat gate touches no pool and sends nothing.
C26_EventOrder ==
    \A i \in DOMAIN last_react :
        LET c      == last_react[i]
            r      == c.rule
            amount == c.before[r.reagent1].current - inventory[r.reagent1].current
            gated  == r.needs_heat /\ ~(c.heat.current * 100 > c.heat.reaction_threshold * c.heat.limit)
        IN  /\ amount >= 0
            /\ reagent_events = c.events
            /\ c.events =
                 IF gated THEN <<>>
                 ELSE (IF r.result # None
                       THEN <<[reagent |-> r.result, delta |-> amount]>> ELSE <<>>)
                      \o <<[reagent |-> r.reagent1, delta |-> -amount]>>
                      \o (IF r.reagent2 # None
                          THEN <<[reagent |-> r.reagent2, delta |-> -amount]>> ELSE <<>>)
            /\ gated => inventory = c.before

\* A two-reagent rule with a result has reacted a positive amount: three events.
C26_Witness ==
    /\ last_react # <<>>
    /\ last_react[1].rule = ExoticStrangeToContinuum
    /\ Len(reagent_events) = 3
    /\ reagent_events[1].reagent = "Continuum" /\ reagent_events[1].delta > 0
    /\ reagent_events[2] = [reagent |-> "Exotic", delta |-> -reagent_events[1].delta]
    /\ reagent_events[3] = [reagent |-> "Strange", delta |-> -reagent_events[1].delta]
    /\ inventory["Continuum"].current
         = last_react[1].before["Continuum"].current + reagent_events[1].delta

C28_FlagsFollowStage ==
    /\ [](player =>
            /\ heat.enabled = (stage \in {"GunAndHeat", "CollectExotic", "ShieldAndStrange",
                                          "Continuum", "End"})
            /\ main_gun.enabled = heat.enabled
            /\ shield_emitter.enabled = (stage \in {"ShieldAndStrange", "Continuum", "End"})
            /\ cargo_dumper.enabled = shield_emitter.enabled)
    /\ [][(player /\ player') =>
            /\ heat.enabled => heat'.enabled
            /\ main_gun.enabled => main_gun'.enabled
            /\ shield_emitter.enabled => shield_emitter'.enabled
            /\ cargo_dumper.enabled => cargo_dumper'.enabled]_vars

\* The entry into ShieldAndStrange has just run: all four flags are enabled.
C28_Witness ==
    /\ player
    /\ stage = "ShieldAndStrange"
    /\ hook_log # <<>>
    /\ hook_log[Len(hook_log)] = <<"OnEnter", "ShieldAndStrange">>
    /\ heat.enabled /\ main_gun.enabled
    /\ shield_emitter.enabled /\ cargo_dumper.enabled

\* C29: only positive additions restart the heat decay delay.  Heat.add(delta)
\* with delta <= 0 leaves the decay timer as it was, elapsed time and finished
\* flag, so a decay that was running goes on in the next tick.
C29_OnlyPositiveRestarts ==
    \A i \in DOMAIN last_heat :
        LET c == last_heat[i]
        IN  (c.op = "add" /\ c.arg <= 0) =>
                /\ heat.decay_timer.elapsed = c.before.decay_timer.elapsed
                /\ heat.decay_timer.finished = c.before.decay_timer.finished
                /\ (c.before.decay_timer.finished /\ heat.current > 0) =>
                       HeatTick(heat, 1).current < heat.current

\* C30: Heat.tick(dt) leaves current unchanged while the decay delay has not
\* finished; in the tick in which the delay finishes it subtracts decay_rate
\* times the part of dt beyond the delay's remaining time; in every tick after
\* the delay has finished it subtracts decay_rate * dt; the result is clamped
\* to [0, limit].
C30_TickDecay ==
    \A i \in DOMAIN last_heat :
        LET c         == last_heat[i]
            b         == c.before
            remaining == b.decay_timer.duration - b.decay_timer.elapsed
            lowered(t) == Max(0, Min(b.limit, b.current - b.decay_rate * t))
        IN  c.op = "tick" =>
              /\ (~b.decay_timer.finished /\ c.arg < remaining) =>
                     /\ heat.current = b.current
                     /\ ~heat.decay_timer.finished
              /\ (~b.decay_timer.finished /\ c.arg >= remaining) =>
                     /\ heat.current = lowered(c.arg - remaining)
                     /\ heat.decay_timer.finished
              /\ b.decay_timer.finished =>
                     /\ heat.current = lowered(c.arg)
                     /\ heat.decay_timer.finished
              /\ 0 <= heat.current /\ heat.current <= heat.limit

\* The delay ran out inside this tick: only the time past it was charged, and
\* the next tick of one unit charges the whole unit.
C30_Witness ==
    /\ last_heat # <<>>
    /\ last_heat[1].op = "tick"
    /\ ~last_heat[1].before.decay_timer.finished
    /\ last_heat[1].arg > last_heat[1].before.decay_timer.duration
                            - last_heat[1].before.decay_timer.elapsed
    /\ heat.decay_timer.finished
    /\ heat.current = last_heat[1].before.current
                        - heat.decay_rate * (last_heat[1].arg
                              - (last_heat[1].before.decay_timer.duration
                                   - last_heat[1].before.decay_timer.elapsed))
    /\ heat.current > heat.decay_rate
    /\ HeatTick(heat, 1).current = heat.current - heat.decay_rate

\* C31: rejecting one spawn request does not affect the other requests pending
\* in the same tick.  When spawn_rocks has run, no request it was handed is
\* left waiting that fits under the cap: a request behind a rejected one that
\* fits is accepted and spawned by the same run.
C31_LaterRequestStillHandled ==
    spawn_log # <<>> =>
        \/ spawn_events = <<>>
        \/ ~SpawnAccepts(spawn_events[1], rock_limit)

\* C32: a rock is split at most once.  Even when two RockDestroyed events name
\* the same rock in one tick, every rock a step removes by destruction yields
\* exactly 3 fragments: a step that adds fragments adds 3 times the number of
\* rocks it removes.
C32_SplitAtMostOnce ==
    [][fragments' > fragments =>
          fragments' - fragments = FRAGMENTS_PER_ROCK * (rocks - rocks')]_vars

\* C33: a collectible's amount is consumed at most once.  A step that removes a
\* collectible either credits its amount to the inventory, once, or carries it
\* over to one replacement collectible, never both, also when the collectible is
\* reported in collisions with both the player and the shield in one tick.
C33_ConsumedOnce ==
    [][exotic_chunks' < exotic_chunks =>
          /\ Len(last_add') <= 1
          /\ strange_chunks' <= strange_chunks + 1
          /\ ~(last_add' # <<>> /\ strange_chunks' > strange_chunks)]_vars

\* C34: the population counter never underflows.  The counter is never below
\* the number of live rocks, and every cull step lowers it by the number of
\* rocks culled from a value at least that large, in the run in progress and in
\* a run started after a restart has reset the counter to 0.
C34_NoUnderflow ==
    /\ [](rock_limit.current >= rocks /\ rock_limit.current <= rock_limit.limit)
    /\ [][(/\ game_state = "InGame" /\ game_state' = "InGame"
           /\ rocks' < rocks
           /\ fragments' <= fragments)
          => /\ rock_limit.current >= rocks - rocks'
             /\ rock_limit'.current = rock_limit.current - (rocks - rocks')]_vars

\* In the run after a restart, rocks of the first cluster spawned since the
\* reset have been culled.
C34_Witness ==
    /\ game_state = "InGame"
    /\ stage = "Exploration"
    /\ rocks = MIN_CLUSTER_SIZE - CullBatch
    /\ rock_limit.current = rocks
    /\ minerals = 0

\* C35: while the game state is Paused the simulation is frozen: no step that
\* starts and ends in Paused changes the progression stage, an inventory pool,
\* heat, a capability flag or the population counter.
C35_PausedIsFrozen ==
    [][(game_state = "Paused" /\ game_state' = "Paused") =>
          /\ stage' = stage
          /\ inventory' = inventory
          /\ heat' = heat
          /\ main_gun'.enabled = main_gun.enabled
          /\ shield_emitter' = shield_emitter
          /\ cargo_dumper' = cargo_dumper
          /\ rock_limit' = rock_limit]_vars

\* C36: while the stage is Exploration, heat stays at 0 and the Exotic pool
\* stays at 0: the gun is disabled, so no heat is added, and the only rule that
\* makes Exotic is heat-gated.
C36_ColdExploration ==
    stage = "Exploration" =>
        /\ heat.current = 0
        /\ inventory["Exotic"].current = 0
        /\ ~main_gun.enabled
        /\ \A i \in DOMAIN reactions :
              reactions[i].result = "Exotic" => reactions[i].needs_heat

\* In Exploration the gun systems have run with the fire input held and minerals
\* are in the pool for the rule to use.
C36_Witness ==
    /\ stage = "Exploration"
    /\ game_state = "InGame"
    /\ player
    /\ main_gun.delay_timer.finished
    /\ inventory["Minerals"].current > 0
    /\ heat.current = 0
    /\ inventory["Exotic"].current = 0

C39_GunFiresWhenAllowed ==
    \A i \in DOMAIN last_heat :
        LET c == last_heat[i]
        IN  c.fired =>
              /\ c.gun.enabled
              /\ c.pressed
              /\ \/ c.gun.delay_timer.finished
                 \/ c.gun.delay_timer.elapsed + c.dt >= c.gun.delay_timer.duration
              /\ c.heat.limit - c.heat.current >= c.gun.heat_generated
              /\ heat.current = c.heat.current + c.gun.heat_generated
              /\ heat.current <= heat.limit
              /\ main_gun.delay_timer.elapsed = 0
              /\ ~main_gun.delay_timer.finished
              /\ main_gun.delay_timer.duration = main_gun.fire_delay
              /\ c.gap # <<>> => c.gap[1] >= c.gun.fire_delay

\* A second shot, made exactly one fire delay after the one before, has taken
\* the heat to the last value from which no further shot fits.
C39_Witness ==
    /\ last_heat # <<>>
    /\ last_heat[1].fired
    /\ last_heat[1].gap = <<main_gun.fire_delay>>
    /\ heat.current > 0
    /\ heat.limit - heat.current < main_gun.heat_generated

\* C40: once the End stage is entered, the fade timer advances only in steps
\* taken while the game state is InGame; Outro is requested from the End stage
\* only when the fade timer has finished; and if the game is in InGame again and
\* again during the End stage, the timer finishes and Outro is requested.
C40_FadeOutEndsTheRun ==
    /\ [][(stage = "End" /\ fadeout # <<>> /\ fadeout' # <<>> /\ fadeout' # fadeout)
            => InGame]_vars
    /\ [][(stage = "End" /\ next_state' = <<"Outro">> /\ next_state # <<"Outro">>)
            => \E i \in DOMAIN fadeout' : fadeout'[i].finished]_vars
    /\ []<>(stage = "End" /\ InGame) => <>(next_state = <<"Outro">>)

====
